---- MODULE Spec2Model ----
(***************************************************************************)
(* State-machine model of the portfolio backend: the Django models of      *)
(* accounts/models.py (their save/clean overrides and derived properties)  *)
(* and the public read API of frontpanel/apis/controller.py.               *)
(*                                                                         *)
(* A database table is a function from the primary keys of its rows to    *)
(* the rows; a model instance is a record holding the row's fields plus    *)
(* its primary key ("id") and Django's _state.adding flag ("adding").      *)
(***************************************************************************)
EXTENDS Integers, Sequences, FiniteSets, TLC

VARIABLES
    resumes,      \* table accounts_resume
    resumeHist,   \* history: per resume, initial counters and completed increment calls
    settings,     \* table accounts_sitesettings
    users,        \* table accounts_adminuser
    texts,        \* table accounts_rotatingtext
    experiences,  \* table accounts_experience
    educations,   \* table accounts_education
    projects,     \* table accounts_project
    dur,          \* one in-memory model instance and the values read from its properties
    lastOp,       \* the last model operation and its outcome
    resp,         \* the last response of the public API
    demoStats,    \* table accounts_demostat
    messages,     \* table accounts_contactmessage
    procs,        \* the requests in progress: their position and local values
    snippets,     \* table accounts_codesnippet
    demos,        \* table accounts_demoinstance
    resumeProjects \* table accounts_resume_projects: <<resume id, project id>>

vars == <<resumes, resumeHist, settings, users, texts, experiences, educations,
          projects, dur, lastOp, resp, demoStats, messages, procs, snippets, demos,
          resumeProjects>>

resumeVars  == <<resumes, resumeHist>>
dateVars    == <<experiences, educations>>
projectVars == <<projects>>
extraVars   == <<demoStats, messages, procs>>
contentVars == <<snippets, demos, resumeProjects>>

(***************************************************************************)
(* Bounds of the model                                                     *)
(***************************************************************************)
MaxResumes == 3
MaxIncrements == 2
MaxSettings == 3
MaxUsers == 3
MaxTexts == 2
MaxTextLen == 2
MaxExperiences == 1
MaxEducations == 1
MaxYearSpan == 1
MaxProjects == 2
MaxListed == 2
MaxPageSize == 2
MaxDemoStats == 2
MaxMessages == 2
MaxProcs == 2
MaxRequests == 3
MaxSnippets == 2
MaxCodeLen == 2
MaxDemos == 1
MaxReads == 2

ResumeIds == 1..MaxResumes

(***************************************************************************)
(* Table helpers                                                           *)
(***************************************************************************)
EmptyTable == <<>>

Put(t, id, row) == [i \in (DOMAIN t) \cup {id} |-> IF i = id THEN row ELSE t[i]]

Drop(t, ids) == [i \in (DOMAIN t) \ ids |-> t[i]]

NoOp == [op |-> "none"]

NoResp == [status |-> 0]

(***************************************************************************)
(* Resume   (accounts/models.py, class Resume)                             *)
(***************************************************************************)
ResumeFields == {"is_primary", "is_public", "file", "file_size",
                 "download_count", "view_count"}

\* The row an instance stands for (the instance without id and adding).
ResumeRow(inst) ==
    [f \in ResumeFields |-> inst[f]]

\* Resume.objects.get(id=...): a model instance loaded from its row.
ResumeLoad(db, id) ==
    [id |-> id, adding |-> FALSE,
     is_primary |-> db[id].is_primary, is_public |-> db[id].is_public,
     file |-> db[id].file, file_size |-> db[id].file_size,
     download_count |-> db[id].download_count, view_count |-> db[id].view_count]

\* Meta.constraints: UniqueConstraint(fields=['is_primary'], condition=Q(is_primary=True)).
UniquePrimaryOK(db) ==
    Cardinality({i \in DOMAIN db : db[i].is_primary}) <= 1

\* Resume.objects.filter(is_primary=True).exclude(id=self.id).update(is_primary=False)
ClearOtherPrimaries(db, id) ==
    [i \in DOMAIN db |->
        IF i # id /\ db[i].is_primary
        THEN [db[i] EXCEPT !.is_primary = FALSE]
        ELSE db[i]]

\* update_fields=None (every field is written, by UPDATE or INSERT)
FullSave == {"*"}

\* models.Model.save for Resume: update_fields is FullSave or a set of field names.
\* Returns the table and whether the statement succeeded.
ResumeBaseSave(db, inst, update_fields) ==
    LET written ==
            IF update_fields = FullSave
            THEN Put(db, inst.id, ResumeRow(inst))
            ELSE IF inst.id \in DOMAIN db
                 THEN Put(db, inst.id,
                          [f \in ResumeFields |->
                              IF f \in update_fields THEN inst[f] ELSE db[inst.id][f]])
                 ELSE db
        rowMissing == update_fields # FullSave /\ inst.id \notin DOMAIN db
        pkClash    == update_fields = FullSave /\ inst.adding /\ inst.id \in DOMAIN db
    IN  IF rowMissing \/ pkClash \/ ~UniquePrimaryOK(written)
        THEN [db |-> db, ok |-> FALSE]
        ELSE [db |-> written, ok |-> TRUE]

\* A mutant of Resume_save: the queryset that clears the flag lacks
\* .exclude(id=self.id), so the saved row itself is cleared with the others.
Resume_save_NoExclude(db, inst, update_fields) ==
    LET sized   == IF inst.file # 0 THEN [inst EXCEPT !.file_size = inst.file] ELSE inst
        cleared == IF sized.is_primary
                   THEN [i \in DOMAIN db |-> [db[i] EXCEPT !.is_primary = FALSE]]
                   ELSE db
        base    == ResumeBaseSave(cleared, sized, update_fields)
    IN  [db |-> base.db, ok |-> base.ok, inst |-> sized]

\* Resume.save
Resume_save(db, inst, update_fields) ==
    LET sized   == IF inst.file # 0 THEN [inst EXCEPT !.file_size = inst.file] ELSE inst
        cleared == IF sized.is_primary THEN ClearOtherPrimaries(db, sized.id) ELSE db
        base    == ResumeBaseSave(cleared, sized, update_fields)
    IN  [db |-> base.db, ok |-> base.ok, inst |-> sized]

\* Resume.increment_download_count
Resume_increment_download_count(db, inst) ==
    Resume_save(db, [inst EXCEPT !.download_count = @ + 1], {"download_count"})

\* A mutant of Resume.increment_view_count: the call passes the other
\* counter's name in update_fields.
Resume_increment_view_count_WrongField(db, inst) ==
    Resume_save(db, [inst EXCEPT !.view_count = @ + 1], {"download_count"})

\* Resume.increment_view_count
Resume_increment_view_count(db, inst) ==
    Resume_save(db, [inst EXCEPT !.view_count = @ + 1], {"view_count"})

(***************************************************************************)
(* Operations on resumes.  Each operation loads the instance it works on,  *)
(* so operations do not overlap.                                           *)
(***************************************************************************)
ResumeFileSizes == {2048}

\* Increment calls completed on the stored resumes.
TotalIncrements ==
    LET RECURSIVE Sum(_)
        Sum(S) == IF S = {} THEN 0
                  ELSE LET i == CHOOSE x \in S : TRUE
                       IN  resumeHist[i].downloads + resumeHist[i].views + Sum(S \ {i})
    IN  Sum(DOMAIN resumeHist)

\* The record of a Resume.save call: the instance saved, its is_primary, the
\* update_fields argument, the outcome and the other rows that were primary.
SaveOp(id, inst, update_fields, ok) ==
    [op |-> "Resume.save", id |-> id, is_primary |-> inst.is_primary,
     update_fields |-> update_fields, ok |-> ok,
     others |-> {i \in DOMAIN resumes : i # id /\ resumes[i].is_primary}]

\* Resume(...).save() on a new instance (id is a fresh uuid4; the counters
\* are not editable and start at their default, 0).
CreateResume(id, prim, pub, size) ==
    /\ id \notin DOMAIN resumes
    /\ LET inst == [id |-> id, adding |-> TRUE, is_primary |-> prim, is_public |-> pub,
                    file |-> size, file_size |-> 0,
                    download_count |-> 0, view_count |-> 0]
           r == Resume_save(resumes, inst, FullSave)
       IN  /\ resumes' = r.db
           /\ resumeHist' = IF r.ok
                            THEN Put(resumeHist, id,
                                     [download0 |-> inst.download_count,
                                      view0 |-> inst.view_count,
                                      downloads |-> 0, views |-> 0])
                            ELSE resumeHist
           /\ lastOp' = SaveOp(id, inst, FullSave, r.ok)
    /\ UNCHANGED <<settings, users, texts, dateVars, projectVars, dur, resp, extraVars, contentVars>>

\* The admin change form: load the row, set the editable fields, save().
ChangeResume(id, prim, pub) ==
    /\ id \in DOMAIN resumes
    /\ LET inst == [ResumeLoad(resumes, id) EXCEPT !.is_primary = prim, !.is_public = pub]
           r == Resume_save(resumes, inst, FullSave)
       IN  /\ resumes' = r.db
           /\ lastOp' = SaveOp(id, inst, FullSave, r.ok)
    /\ UNCHANGED <<resumeHist, settings, users, texts, dateVars, projectVars, dur, resp, extraVars, contentVars>>

\* resume.increment_download_count() on a loaded resume
IncrementDownloadCount(id) ==
    /\ id \in DOMAIN resumes
    /\ TotalIncrements < MaxIncrements
    /\ LET inst == ResumeLoad(resumes, id)
           r == Resume_increment_download_count(resumes, inst)
       IN  /\ resumes' = r.db
           /\ resumeHist' = IF r.ok
                            THEN [resumeHist EXCEPT ![id].downloads = @ + 1]
                            ELSE resumeHist
           /\ lastOp' = SaveOp(id, inst, {"download_count"}, r.ok)
    /\ UNCHANGED <<settings, users, texts, dateVars, projectVars, dur, resp, extraVars, contentVars>>

\* resume.increment_view_count() on a loaded resume
IncrementViewCount(id) ==
    /\ id \in DOMAIN resumes
    /\ TotalIncrements < MaxIncrements
    /\ LET inst == ResumeLoad(resumes, id)
           r == Resume_increment_view_count(resumes, inst)
       IN  /\ resumes' = r.db
           /\ resumeHist' = IF r.ok
                            THEN [resumeHist EXCEPT ![id].views = @ + 1]
                            ELSE resumeHist
           /\ lastOp' = SaveOp(id, inst, {"view_count"}, r.ok)
    /\ UNCHANGED <<settings, users, texts, dateVars, projectVars, dur, resp, extraVars, contentVars>>

\* Resume.delete
DeleteResume(id) ==
    /\ id \in DOMAIN resumes
    /\ resumes' = Drop(resumes, {id})
    /\ resumeHist' = Drop(resumeHist, {id})
    /\ resumeProjects' = {l \in resumeProjects : l[1] # id}
    /\ lastOp' = [op |-> "Resume.delete", id |-> id, ok |-> TRUE]
    /\ UNCHANGED <<settings, users, texts, dateVars, projectVars, dur, resp, extraVars,
                   snippets, demos>>

(***************************************************************************)
(* SiteSettings   (accounts/models.py, class SiteSettings)                 *)
(***************************************************************************)
SettingsIds == 1..MaxSettings

SiteNames == {"DevPortfolio", "Portfolio A", "Portfolio B"}

\* site_name's default
DefaultSiteName == "DevPortfolio"

\* The row an instance stands for: the fields the instance carries (fields
\* it does not carry are not tracked)
SettingsRow(inst) == [f \in (DOMAIN inst) \ {"id", "adding"} |-> inst[f]]

\* A mutant of SiteSettings.save: the sibling rows are not deleted.
SiteSettings_save_KeepSiblings(db, inst) ==
    Put(db, inst.id, SettingsRow(inst))

\* SiteSettings.save: delete every other row, then insert or update this one.
SiteSettings_save(db, inst) ==
    LET kept == Drop(db, (DOMAIN db) \ {inst.id})
    IN  Put(kept, inst.id, SettingsRow(inst))

SettingsOp(inst) ==
    [op |-> "SiteSettings.save", id |-> inst.id, site_name |-> inst.site_name,
     ok |-> TRUE, siblings |-> (DOMAIN settings) \ {inst.id}]

\* SiteSettings(...).save() on a new instance (id is a fresh uuid4)
SaveNewSettings(id, name) ==
    /\ id \notin DOMAIN settings
    /\ LET inst == [id |-> id, adding |-> TRUE, site_name |-> name]
       IN  /\ settings' = SiteSettings_save(settings, inst)
           /\ lastOp' = SettingsOp(inst)
    /\ UNCHANGED <<resumeVars, users, texts, dateVars, projectVars, dur, resp, extraVars, contentVars>>

\* save() on an instance loaded from the table (the admin change form)
SaveStoredSettings(id, name) ==
    /\ id \in DOMAIN settings
    /\ LET inst == [id |-> id, adding |-> FALSE, site_name |-> name]
       IN  /\ settings' = SiteSettings_save(settings, inst)
           /\ lastOp' = SettingsOp(inst)
    /\ UNCHANGED <<resumeVars, users, texts, dateVars, projectVars, dur, resp, extraVars, contentVars>>

\* SiteSettings.get_active_settings: objects.get_or_create(); newId is the
\* uuid4 of the row it creates when the table is empty.
GetActiveSettings(newId) ==
    /\ IF DOMAIN settings = {}
       THEN /\ newId \in SettingsIds
            /\ LET inst == [id |-> newId, adding |-> TRUE, site_name |-> DefaultSiteName]
               IN  /\ settings' = SiteSettings_save(settings, inst)
                   /\ lastOp' = SettingsOp(inst)
                   /\ resp' = [status |-> 200, settings |-> inst.id]
       ELSE IF Cardinality(DOMAIN settings) = 1
       THEN /\ resp' = [status |-> 200, settings |-> CHOOSE i \in DOMAIN settings : TRUE]
            /\ lastOp' = [op |-> "SiteSettings.get_active_settings", ok |-> TRUE]
            /\ UNCHANGED settings
       ELSE /\ resp' = [status |-> 500, error |-> "MultipleObjectsReturned"]
            /\ lastOp' = [op |-> "SiteSettings.get_active_settings", ok |-> FALSE]
            /\ UNCHANGED settings
    /\ UNCHANGED <<resumeVars, users, texts, dateVars, projectVars, dur, extraVars, contentVars>>

\* The admin's delete of the settings row
DeleteSettings(id) ==
    /\ id \in DOMAIN settings
    /\ settings' = Drop(settings, {id})
    /\ lastOp' = [op |-> "SiteSettings.delete", id |-> id, ok |-> TRUE]
    /\ UNCHANGED <<resumeVars, users, texts, dateVars, projectVars, dur, resp, extraVars, contentVars>>

(***************************************************************************)
(* AdminUser   (accounts/models.py, class AdminUser)                       *)
(***************************************************************************)
UserIds == 1..MaxUsers

\* A mutant of AdminUser.save: the else branch is missing, so a user that
\* is no super admin keeps the is_superuser it came with.
AdminUser_save_NoElse(db, inst) ==
    LET staffed == [inst EXCEPT !.is_staff = TRUE]
        forced  == IF staffed.is_super_admin
                   THEN [staffed EXCEPT !.is_superuser = TRUE]
                   ELSE staffed
    IN  Put(db, forced.id,
            [is_staff |-> forced.is_staff, is_superuser |-> forced.is_superuser,
             is_super_admin |-> forced.is_super_admin])

\* AdminUser.save
AdminUser_save(db, inst) ==
    LET staffed == [inst EXCEPT !.is_staff = TRUE]
        forced  == IF staffed.is_super_admin
                   THEN [staffed EXCEPT !.is_superuser = TRUE]
                   ELSE [staffed EXCEPT !.is_superuser = FALSE]
    IN  Put(db, forced.id,
            [is_staff |-> forced.is_staff, is_superuser |-> forced.is_superuser,
             is_super_admin |-> forced.is_super_admin])

\* user.save() on a new or a stored user whose three flags were set to any values
SaveUser(id, staff, super, admin) ==
    /\ LET inst == [id |-> id, is_staff |-> staff, is_superuser |-> super,
                    is_super_admin |-> admin]
       IN  /\ users' = AdminUser_save(users, inst)
           /\ lastOp' = [op |-> "AdminUser.save", id |-> id, ok |-> TRUE,
                         is_staff |-> staff, is_superuser |-> super,
                         is_super_admin |-> admin]
    /\ UNCHANGED <<resumeVars, settings, texts, dateVars, projectVars, dur, resp, extraVars, contentVars>>

\* user.delete()
DeleteUser(id) ==
    /\ id \in DOMAIN users
    /\ users' = Drop(users, {id})
    /\ lastOp' = [op |-> "AdminUser.delete", id |-> id, ok |-> TRUE]
    /\ UNCHANGED <<resumeVars, settings, texts, dateVars, projectVars, dur, resp, extraVars, contentVars>>

(***************************************************************************)
(* AdminUserManager   (accounts/models.py, class AdminUserManager)         *)
(* extra_fields is a function from the names of the keyword arguments      *)
(* given to their values.                                                  *)
(***************************************************************************)
FlagNames == {"is_staff", "is_superuser", "is_super_admin"}

\* dict.setdefault(key, value)
SetDefault(extra_fields, key, value) ==
    IF key \in DOMAIN extra_fields THEN extra_fields
    ELSE [k \in (DOMAIN extra_fields) \cup {key} |->
            IF k = key THEN value ELSE extra_fields[k]]

\* self.model(username=..., email=..., **extra_fields): a flag that is not
\* given takes its field default, False
AdminUser_init(id, extra_fields) ==
    [id |-> id,
     is_staff |-> IF "is_staff" \in DOMAIN extra_fields
                  THEN extra_fields["is_staff"] ELSE FALSE,
     is_superuser |-> IF "is_superuser" \in DOMAIN extra_fields
                      THEN extra_fields["is_superuser"] ELSE FALSE,
     is_super_admin |-> IF "is_super_admin" \in DOMAIN extra_fields
                        THEN extra_fields["is_super_admin"] ELSE FALSE]

\* AdminUserManager.create_user; an empty email raises ValueError
AdminUserManager_create_user(db, id, email, extra_fields) ==
    IF email = "" THEN [db |-> db, ok |-> FALSE]
    ELSE LET user == [AdminUser_init(id, extra_fields) EXCEPT !.is_staff = TRUE]
         IN  [db |-> AdminUser_save(db, user), ok |-> TRUE]

\* AdminUserManager.create_superuser
AdminUserManager_create_superuser(db, id, email, extra_fields) ==
    AdminUserManager_create_user(db, id, email,
        SetDefault(SetDefault(SetDefault(extra_fields, "is_super_admin", TRUE),
                              "is_staff", TRUE),
                   "is_superuser", TRUE))

\* A call of create_user; the new row takes a fresh primary key
CreateUser(id, email, extra_fields) ==
    /\ id \notin DOMAIN users
    /\ LET r == AdminUserManager_create_user(users, id, email, extra_fields)
       IN  /\ users' = r.db
           /\ lastOp' = [op |-> "create_user", id |-> id, ok |-> r.ok,
                         extra_fields |-> extra_fields]
    /\ UNCHANGED <<resumeVars, settings, texts, dateVars, projectVars, dur, resp,
                   extraVars, contentVars>>

\* A call of create_superuser
CreateSuperuser(id, email, extra_fields) ==
    /\ id \notin DOMAIN users
    /\ LET r == AdminUserManager_create_superuser(users, id, email, extra_fields)
       IN  /\ users' = r.db
           /\ lastOp' = [op |-> "create_superuser", id |-> id, ok |-> r.ok,
                         extra_fields |-> extra_fields]
    /\ UNCHANGED <<resumeVars, settings, texts, dateVars, projectVars, dur, resp,
                   extraVars, contentVars>>

(***************************************************************************)
(* RotatingText   (accounts/models.py, class RotatingText)                 *)
(* A text is a sequence of characters; delay_seconds is held in            *)
(* milliseconds (0.5 s = 500).                                             *)
(***************************************************************************)
TextIds == 1..MaxTexts

Whitespace == {" "}

Alphabet == {" ", "a"}

MinDelayMs == 500

MinTypingSpeed == 50

AllTexts == UNION {[1..n -> Alphabet] : n \in 0..MaxTextLen}

Delays == {0, MinDelayMs - 1, MinDelayMs}

Speeds == {MinTypingSpeed - 1, MinTypingSpeed}

RECURSIVE LStrip(_)
LStrip(t) ==
    IF t = <<>> THEN t
    ELSE IF Head(t) \in Whitespace THEN LStrip(Tail(t)) ELSE t

RECURSIVE RStrip(_)
RStrip(t) ==
    IF t = <<>> THEN t
    ELSE IF t[Len(t)] \in Whitespace THEN RStrip(SubSeq(t, 1, Len(t) - 1)) ELSE t

\* str.strip()
Strip(t) == RStrip(LStrip(t))

\* A mutant of RotatingText.clean: the text is tested without .strip().
RotatingText_clean_NoStrip(inst) ==
    IF inst.text = <<>> THEN "Text cannot be empty"
    ELSE IF inst.delay_seconds < MinDelayMs THEN "Delay should be at least 0.5 seconds"
    ELSE IF inst.typing_speed < MinTypingSpeed
         THEN "Typing speed should be at least 50ms per character"
    ELSE "valid"

\* RotatingText.clean: the message of the ValidationError it raises, or "valid".
RotatingText_clean(inst) ==
    IF Strip(inst.text) = <<>> THEN "Text cannot be empty"
    ELSE IF inst.delay_seconds < MinDelayMs THEN "Delay should be at least 0.5 seconds"
    ELSE IF inst.typing_speed < MinTypingSpeed
         THEN "Typing speed should be at least 50ms per character"
    ELSE "valid"

\* RotatingText.save
RotatingText_save(db, inst) ==
    LET msg == RotatingText_clean(inst)
    IN  IF msg # "valid"
        THEN [db |-> db, ok |-> FALSE, error |-> "ValidationError"]
        ELSE [db |-> Put(db, inst.id,
                         [text |-> inst.text, delay_seconds |-> inst.delay_seconds,
                          typing_speed |-> inst.typing_speed, is_active |-> inst.is_active]),
              ok |-> TRUE, error |-> "none"]

\* save() on a new text or on a stored one whose fields were edited
SaveText(id, text, delay, speed, active) ==
    /\ LET inst == [id |-> id, text |-> text, delay_seconds |-> delay,
                    typing_speed |-> speed, is_active |-> active]
           r == RotatingText_save(texts, inst)
       IN  /\ texts' = r.db
           /\ lastOp' = [op |-> "RotatingText.save", id |-> id, ok |-> r.ok,
                         error |-> r.error]
    /\ UNCHANGED <<resumeVars, settings, users, dateVars, projectVars, dur, resp, extraVars, contentVars>>

\* RotatingTextAdmin.activate_texts: queryset.update(is_active=True)
ActivateTexts(ids) ==
    /\ ids # {} /\ ids \subseteq DOMAIN texts
    /\ texts' = [i \in DOMAIN texts |->
                    IF i \in ids THEN [texts[i] EXCEPT !.is_active = TRUE] ELSE texts[i]]
    /\ lastOp' = [op |-> "RotatingTextAdmin.activate_texts", ok |-> TRUE]
    /\ UNCHANGED <<resumeVars, settings, users, dateVars, projectVars, dur, resp, extraVars, contentVars>>

\* RotatingTextAdmin.deactivate_texts: queryset.update(is_active=False)
DeactivateTexts(ids) ==
    /\ ids # {} /\ ids \subseteq DOMAIN texts
    /\ texts' = [i \in DOMAIN texts |->
                    IF i \in ids THEN [texts[i] EXCEPT !.is_active = FALSE] ELSE texts[i]]
    /\ lastOp' = [op |-> "RotatingTextAdmin.deactivate_texts", ok |-> TRUE]
    /\ UNCHANGED <<resumeVars, settings, users, dateVars, projectVars, dur, resp, extraVars, contentVars>>

\* text.delete()
DeleteText(id) ==
    /\ id \in DOMAIN texts
    /\ texts' = Drop(texts, {id})
    /\ lastOp' = [op |-> "RotatingText.delete", id |-> id, ok |-> TRUE]
    /\ UNCHANGED <<resumeVars, settings, users, dateVars, projectVars, dur, resp, extraVars, contentVars>>

(***************************************************************************)
(* Dates.  A date is <<year, month, day>>; None is NoDate.                 *)
(***************************************************************************)
NoDate == <<>>

Year(d) == d[1]

Month(d) == d[2]

Day(d) == d[3]

\* datetime.date's < and <=
DateLT(a, b) ==
    \/ Year(a) < Year(b)
    \/ Year(a) = Year(b) /\ Month(a) < Month(b)
    \/ Year(a) = Year(b) /\ Month(a) = Month(b) /\ Day(a) < Day(b)

DateLE(a, b) == a = b \/ DateLT(a, b)

IsLeap(y) == (y % 4 = 0 /\ y % 100 # 0) \/ y % 400 = 0

\* calendar.monthrange(y, m)[1]
DaysInMonth(y, m) ==
    IF m = 2 THEN (IF IsLeap(y) THEN 29 ELSE 28)
    ELSE IF m \in {4, 6, 9, 11} THEN 30 ELSE 31

IsDate(d) == Day(d) <= DaysInMonth(Year(d), Month(d))

(***************************************************************************)
(* Experience and Education   (accounts/models.py)                         *)
(***************************************************************************)
ExperienceIds == 1..MaxExperiences

EducationIds == 1..MaxEducations

\* Experience.clean: the message of the ValidationError it raises, or "valid".
Experience_clean(inst) ==
    IF /\ inst.start_date # NoDate /\ inst.end_date # NoDate /\ ~inst.is_current
       /\ DateLT(inst.end_date, inst.start_date)
    THEN "Start date cannot be after end date."
    ELSE IF inst.is_current /\ inst.end_date # NoDate
    THEN "Current positions should not have an end date."
    ELSE "valid"

\* A mutant of Experience.save: clean() is not called.
Experience_save_NoClean(db, inst) ==
    LET fixed == IF inst.is_current THEN [inst EXCEPT !.end_date = NoDate] ELSE inst
    IN  [db |-> Put(db, fixed.id,
                    [start_date |-> fixed.start_date, end_date |-> fixed.end_date,
                     is_current |-> fixed.is_current, order |-> fixed.order]),
         ok |-> TRUE, error |-> "none", message |-> "valid"]

\* Experience.save
Experience_save(db, inst) ==
    LET msg   == Experience_clean(inst)
        fixed == IF inst.is_current THEN [inst EXCEPT !.end_date = NoDate] ELSE inst
    IN  IF msg # "valid"
        THEN [db |-> db, ok |-> FALSE, error |-> "ValidationError", message |-> msg]
        ELSE [db |-> Put(db, fixed.id,
                         [start_date |-> fixed.start_date, end_date |-> fixed.end_date,
                          is_current |-> fixed.is_current, order |-> fixed.order]),
              ok |-> TRUE, error |-> "none", message |-> msg]

\* Education.clean; grade_value and grade_scale hold 0 for None (the code
\* reads both only through their truth value and through >).
Education_clean(inst) ==
    IF /\ inst.start_date # NoDate /\ inst.end_date # NoDate /\ ~inst.is_current
       /\ DateLT(inst.end_date, inst.start_date)
    THEN "Start date cannot be after end date."
    ELSE IF inst.is_current /\ inst.end_date # NoDate
    THEN "Current education should not have an end date."
    ELSE IF /\ inst.grade_value # 0 /\ inst.grade_scale # 0
            /\ inst.grade_value > inst.grade_scale
    THEN "Grade value cannot be greater than grade scale."
    ELSE "valid"

\* Education.save
Education_save(db, inst) ==
    LET msg   == Education_clean(inst)
        fixed == IF inst.is_current THEN [inst EXCEPT !.end_date = NoDate] ELSE inst
    IN  IF msg # "valid"
        THEN [db |-> db, ok |-> FALSE, error |-> "ValidationError", message |-> msg]
        ELSE [db |-> Put(db, fixed.id,
                         [start_date |-> fixed.start_date, end_date |-> fixed.end_date,
                          is_current |-> fixed.is_current, order |-> fixed.order,
                          grade_value |-> fixed.grade_value,
                          grade_scale |-> fixed.grade_scale]),
              ok |-> TRUE, error |-> "none", message |-> msg]

\* Dates the saves of experiences and education records draw from
SampleDates == {<<2020, 1, 1>>, <<2021, 6, 1>>}

\* Education.duration_years: an int, or the string "Present"
Education_duration_years(inst, today) ==
    IF ~inst.is_current /\ inst.end_date = NoDate
    THEN [is_int |-> FALSE, years |-> 0, text |-> "Present"]
    ELSE LET end == IF inst.is_current THEN today ELSE inst.end_date
             years == Year(end) - Year(inst.start_date)
             before == \/ Month(end) < Month(inst.start_date)
                       \/ /\ Month(end) = Month(inst.start_date)
                          /\ Day(end) < Day(inst.start_date)
         IN  [is_int |-> TRUE, years |-> IF before THEN years - 1 ELSE years,
              text |-> ""]

\* EducationSchema.from_education: the schema validates
\* duration_years: Optional[int], and a string that is no number fails it
EducationSchema_from_education(inst, today) ==
    LET d == Education_duration_years(inst, today)
    IN  [ok |-> d.is_int, duration_years |-> d]

\* The record of a save of an Experience or an Education
DatedSaveOp(op, inst, r) ==
    [op |-> op, id |-> inst.id, ok |-> r.ok, error |-> r.error, message |-> r.message,
     is_current |-> inst.is_current, had_end |-> inst.end_date # NoDate]

\* save() on a new experience or on a stored one whose fields were edited
SaveExperience(id, start, end, current, order) ==
    /\ LET inst == [id |-> id, start_date |-> start, end_date |-> end,
                    is_current |-> current, order |-> order]
           r == Experience_save(experiences, inst)
       IN  /\ experiences' = r.db
           /\ lastOp' = DatedSaveOp("Experience.save", inst, r)
    /\ UNCHANGED <<resumeVars, settings, users, texts, educations, projectVars, dur, resp, extraVars, contentVars>>

\* experience.delete()
DeleteExperience(id) ==
    /\ id \in DOMAIN experiences
    /\ experiences' = Drop(experiences, {id})
    /\ lastOp' = [op |-> "Experience.delete", id |-> id, ok |-> TRUE]
    /\ UNCHANGED <<resumeVars, settings, users, texts, educations, projectVars, dur, resp, extraVars, contentVars>>

\* save() on a new education record or on a stored one whose fields were edited
SaveEducation(id, start, end, current, order, grade, scale) ==
    /\ LET inst == [id |-> id, start_date |-> start, end_date |-> end,
                    is_current |-> current, order |-> order,
                    grade_value |-> grade, grade_scale |-> scale]
           r == Education_save(educations, inst)
       IN  /\ educations' = r.db
           /\ lastOp' = DatedSaveOp("Education.save", inst, r)
    /\ UNCHANGED <<resumeVars, settings, users, texts, experiences, projectVars, dur, resp, extraVars, contentVars>>

\* education.delete()
DeleteEducation(id) ==
    /\ id \in DOMAIN educations
    /\ educations' = Drop(educations, {id})
    /\ lastOp' = [op |-> "Education.delete", id |-> id, ok |-> TRUE]
    /\ UNCHANGED <<resumeVars, settings, users, texts, experiences, projectVars, dur, resp, extraVars, contentVars>>

(***************************************************************************)
(* Experience.duration   (accounts/models.py) and the part of              *)
(* dateutil.relativedelta(dt1, dt2) it relies on                           *)
(***************************************************************************)
Abs(n) == IF n < 0 THEN -n ELSE n

Sign(n) == IF n < 0 THEN -1 ELSE 1

\* relativedelta._set_months: the years and months of a signed month count
SetMonths(n) ==
    IF Abs(n) > 11
    THEN [years |-> Sign(n) * (Abs(n) \div 12), months |-> Sign(n) * (Abs(n) % 12)]
    ELSE [years |-> 0, months |-> n]

\* relativedelta.__radd__: a date plus years and months, the day clipped to
\* the length of the month reached
AddDelta(d, delta) ==
    LET y0 == Year(d) + delta.years
        m0 == Month(d) + delta.months
        y  == IF m0 > 12 THEN y0 + 1 ELSE IF m0 < 1 THEN y0 - 1 ELSE y0
        m  == IF m0 > 12 THEN m0 - 12 ELSE IF m0 < 1 THEN m0 + 12 ELSE m0
        dm == DaysInMonth(y, m)
    IN  <<y, m, IF Day(d) < dm THEN Day(d) ELSE dm>>

\* the loop of relativedelta.__init__ that steps the month count back (dt1 >=
\* dt2) or forward (dt1 < dt2) until dt2 plus the months does not pass dt1
RECURSIVE StepMonths(_, _, _)
StepMonths(dt1, dt2, n) ==
    LET dtm == AddDelta(dt2, SetMonths(n))
    IN  IF DateLT(dt1, dt2)
        THEN (IF DateLT(dtm, dt1) THEN StepMonths(dt1, dt2, n + 1) ELSE n)
        ELSE (IF DateLT(dt1, dtm) THEN StepMonths(dt1, dt2, n - 1) ELSE n)

\* relativedelta(dt1, dt2): its years and months
RelativeDelta(dt1, dt2) ==
    SetMonths(StepMonths(dt1, dt2,
                         (Year(dt1) - Year(dt2)) * 12 + (Month(dt1) - Month(dt2))))

\* A mutant of Experience.duration: the years-only branch is tested first,
\* so the months are dropped whenever years is positive.
Experience_duration_YearsFirst(inst, today) ==
    IF ~inst.is_current /\ inst.end_date = NoDate THEN "Present"
    ELSE LET end_date == IF inst.is_current THEN today ELSE inst.end_date
             delta    == RelativeDelta(end_date, inst.start_date)
             years    == delta.years
             months   == delta.months
         IN  IF years > 0 THEN ToString(years) \o " yr"
             ELSE IF years > 0 /\ months > 0
                  THEN ToString(years) \o " yr " \o ToString(months) \o " mo"
             ELSE IF months > 0 THEN ToString(months) \o " mo"
             ELSE "Less than a month"

\* Experience.duration; today is timezone.now().date()
Experience_duration(inst, today) ==
    IF ~inst.is_current /\ inst.end_date = NoDate THEN "Present"
    ELSE LET end_date == IF inst.is_current THEN today ELSE inst.end_date
             delta    == RelativeDelta(end_date, inst.start_date)
             years    == delta.years
             months   == delta.months
         IN  IF years > 0 /\ months > 0
             THEN ToString(years) \o " yr " \o ToString(months) \o " mo"
             ELSE IF years > 0 THEN ToString(years) \o " yr"
             ELSE IF months > 0 THEN ToString(months) \o " mo"
             ELSE "Less than a month"

\* The days of the month the dates of the duration check are drawn from
SampleDays == {1, 28, 29, 31}

Years == 2020..(2020 + MaxYearSpan)

AllDates == {d \in Years \X (1..12) \X SampleDays : IsDate(d)}

\* Reading experience.duration; today is drawn only when the property calls
\* timezone.now(), and dur.now records the value it drew.
ReadDuration(today) ==
    /\ dur.state = "instance"
    /\ dur' = [dur EXCEPT !.state = "read",
                          !.now = IF dur.is_current THEN today ELSE NoDate,
                          !.duration = Experience_duration(dur, today)]
    /\ lastOp' = [op |-> "Experience.duration", ok |-> TRUE]
    /\ UNCHANGED <<resumeVars, settings, users, texts, dateVars, projectVars, resp, extraVars, contentVars>>

(***************************************************************************)
(* Project   (accounts/models.py, class Project) and the project detail    *)
(* request   (frontpanel/apis/controller.py)                               *)
(***************************************************************************)
ProjectIds == 1..MaxProjects

Slugs == {"alpha", "beta", "gamma"}

\* slug = models.SlugField(unique=True): no two rows share a slug
UniqueSlugOK(db) ==
    \A i, j \in DOMAIN db : db[i].slug = db[j].slug => i = j

\* Project.clean
Project_clean(inst) ==
    IF /\ inst.start_date # NoDate /\ inst.completion_date # NoDate
       /\ DateLT(inst.completion_date, inst.start_date)
    THEN [ok |-> FALSE, error |-> "ValidationError"]
    ELSE [ok |-> TRUE, error |-> "none"]

\* models.Model.save for Project (the class does not override save, and
\* Model.save does not call clean)
Project_save(db, inst) ==
    LET written == Put(db, inst.id,
                       [slug |-> inst.slug, is_public |-> inst.is_public,
                        order |-> inst.order, created_at |-> inst.created_at,
                        start_date |-> inst.start_date,
                        completion_date |-> inst.completion_date])
    IN  IF UniqueSlugOK(written)
        THEN [db |-> written, ok |-> TRUE, error |-> "none"]
        ELSE [db |-> db, ok |-> FALSE, error |-> "IntegrityError"]

\* save() on a new project; created_at is auto_now_add, the time of the call
CreateProject(id, slug, pub, order, now, start, completion) ==
    /\ id \notin DOMAIN projects
    /\ LET inst == [id |-> id, slug |-> slug, is_public |-> pub, order |-> order,
                    created_at |-> now, start_date |-> start,
                    completion_date |-> completion]
           r == Project_save(projects, inst)
       IN  /\ projects' = r.db
           /\ lastOp' = [op |-> "Project.save", id |-> id, ok |-> r.ok, error |-> r.error]
    /\ resp' = NoResp
    /\ UNCHANGED <<resumeVars, settings, users, texts, dateVars, dur, extraVars, contentVars>>

\* save() on a stored project whose fields were edited
ChangeProject(id, slug, pub, order, start, completion) ==
    /\ id \in DOMAIN projects
    /\ LET inst == [id |-> id, slug |-> slug, is_public |-> pub, order |-> order,
                    created_at |-> projects[id].created_at, start_date |-> start,
                    completion_date |-> completion]
           r == Project_save(projects, inst)
       IN  /\ projects' = r.db
           /\ lastOp' = [op |-> "Project.save", id |-> id, ok |-> r.ok, error |-> r.error]
    /\ resp' = NoResp
    /\ UNCHANGED <<resumeVars, settings, users, texts, dateVars, dur, extraVars, contentVars>>

\* The admin's change form: the ModelForm validates the instance
\* (full_clean, which calls clean) and saves it when it is valid
AdminSaveProject(id, slug, pub, order, now, start, completion) ==
    /\ LET inst == [id |-> id, slug |-> slug, is_public |-> pub, order |-> order,
                    created_at |-> IF id \in DOMAIN projects
                                   THEN projects[id].created_at ELSE now,
                    start_date |-> start, completion_date |-> completion]
           c == Project_clean(inst)
           r == IF c.ok THEN Project_save(projects, inst)
                ELSE [db |-> projects, ok |-> FALSE, error |-> c.error]
       IN  /\ projects' = r.db
           /\ lastOp' = [op |-> "ProjectAdmin.save", id |-> id, ok |-> r.ok,
                         error |-> r.error]
    /\ resp' = NoResp
    /\ UNCHANGED <<resumeVars, settings, users, texts, dateVars, dur, extraVars, contentVars>>

\* on_delete=models.CASCADE of CodeSnippet.project and DemoInstance.project:
\* the rows of table t that point to project id go with it.
CascadeProject(t, id) == Drop(t, {i \in DOMAIN t : t[i].project = id})

\* project.delete()
DeleteProject(id) ==
    /\ id \in DOMAIN projects
    /\ projects' = Drop(projects, {id})
    /\ snippets' = CascadeProject(snippets, id)
    /\ demos' = CascadeProject(demos, id)
    /\ resumeProjects' = {l \in resumeProjects : l[2] # id}
    /\ lastOp' = [op |-> "Project.delete", id |-> id, ok |-> TRUE]
    /\ resp' = NoResp
    /\ UNCHANGED <<resumeVars, settings, users, texts, dateVars, dur, extraVars>>

\* A mutant of the lookup of get_project_detail: is_public=True is missing.
ProjectDetailLookup_AnyVisibility(db, slug) ==
    {i \in DOMAIN db : db[i].slug = slug}

\* The rows get_object_or_404(Project, slug=project_slug, is_public=True) matches
ProjectDetailLookup(db, slug) ==
    {i \in DOMAIN db : db[i].slug = slug /\ db[i].is_public}

\* PublicController.get_project_detail
GetProjectDetail(slug) ==
    /\ LET found == ProjectDetailLookup(projects, slug)
       IN  resp' = IF found = {}
                   THEN [op |-> "get_project_detail", slug |-> slug, status |-> 404]
                   ELSE IF Cardinality(found) = 1
                   THEN LET id == CHOOSE i \in found : TRUE
                        IN  [op |-> "get_project_detail", slug |-> slug, status |-> 200,
                             id |-> id, data |-> projects[id]]
                   ELSE [op |-> "get_project_detail", slug |-> slug, status |-> 500]
    /\ lastOp' = [op |-> "get_project_detail", ok |-> TRUE]
    /\ UNCHANGED <<resumeVars, settings, users, texts, dateVars, projectVars, dur, extraVars, contentVars>>

(***************************************************************************)
(* The paginated lists   (frontpanel/apis/controller.py: get_projects,     *)
(* get_experiences, get_education) and django.core.paginator.Paginator as  *)
(* they use it (orphans = 0, allow_empty_first_page = True)                *)
(***************************************************************************)
Max(a, b) == IF a > b THEN a ELSE b

\* math.ceil(a / b) for a >= 0, b >= 1
CeilDiv(a, b) == (a + b - 1) \div b

\* The sequences that hold every element of S once
Perms(S) ==
    {p \in [1..Cardinality(S) -> S] : \A i, j \in 1..Cardinality(S) : p[i] = p[j] => i = j}

\* Paginator.num_pages
Paginator_num_pages(count, per_page) ==
    CeilDiv(Max(1, count), per_page)

\* Paginator.get_page: validate_number raises EmptyPage for a number below 1
\* or above num_pages, and get_page then takes the last page
Paginator_get_page(number, count, per_page) ==
    IF number < 1 \/ number > Paginator_num_pages(count, per_page)
    THEN Paginator_num_pages(count, per_page)
    ELSE number

\* Paginator.page(number).object_list: the slice [bottom:top] of the list
Paginator_page(list, number, per_page) ==
    LET bottom == (number - 1) * per_page
        top    == IF bottom + per_page >= Len(list) THEN Len(list) ELSE bottom + per_page
    IN  SubSeq(list, bottom + 1, top)

\* A mutant of the response: has_next is taken from the requested page
\* instead of the page object.
PaginatedResponse_RequestedPage(op, list, page, page_size) ==
    LET number == Paginator_get_page(page, Len(list), page_size)
    IN  [op |-> op, status |-> 200,
         items |-> Paginator_page(list, number, page_size),
         total |-> Len(list),
         page |-> page,
         page_size |-> page_size,
         total_pages |-> Paginator_num_pages(Len(list), page_size),
         has_next |-> page < Paginator_num_pages(Len(list), page_size),
         has_previous |-> number > 1]

\* The PaginatedResponse the three list handlers build from the ordered
\* queryset and filters.page / filters.page_size
PaginatedResponse(op, list, page, page_size) ==
    LET number == Paginator_get_page(page, Len(list), page_size)
    IN  [op |-> op, status |-> 200,
         items |-> Paginator_page(list, number, page_size),
         total |-> Len(list),
         page |-> page,
         page_size |-> page_size,
         total_pages |-> Paginator_num_pages(Len(list), page_size),
         has_next |-> number < Paginator_num_pages(Len(list), page_size),
         has_previous |-> number > 1]

\* order_by("order", "-created_at"): a before b, or tied with it
ProjectOrderLE(a, b) ==
    \/ a.order < b.order
    \/ a.order = b.order /\ a.created_at >= b.created_at

\* order_by("-start_date", "order"): a before b, or tied with it
DatedOrderLE(a, b) ==
    \/ DateLT(b.start_date, a.start_date)
    \/ a.start_date = b.start_date /\ a.order <= b.order

\* PublicController.get_projects; list is the order the database returns
\* the filtered rows in (rows tied on the sort key come in any order)
GetProjects(page, page_size) ==
    /\ \E list \in Perms({i \in DOMAIN projects : projects[i].is_public}) :
          /\ \A i, j \in 1..Len(list) :
                i < j => ProjectOrderLE(projects[list[i]], projects[list[j]])
          /\ resp' = PaginatedResponse("get_projects", list, page, page_size)
    /\ lastOp' = [op |-> "get_projects", ok |-> TRUE]
    /\ UNCHANGED <<resumeVars, settings, users, texts, dateVars, projectVars, dur, extraVars, contentVars>>

\* The is_current filter of the experience and education lists ("any" when
\* filters.is_current is None)
CurrentFilter == {"any", "true", "false"}

MatchesCurrent(row, current) ==
    IF current = "any" THEN TRUE ELSE row.is_current = (current = "true")

\* PublicController.get_experiences
GetExperiences(current, page, page_size) ==
    /\ \E list \in Perms({i \in DOMAIN experiences :
                              MatchesCurrent(experiences[i], current)}) :
          /\ \A i, j \in 1..Len(list) :
                i < j => DatedOrderLE(experiences[list[i]], experiences[list[j]])
          /\ resp' = PaginatedResponse("get_experiences", list, page, page_size)
    /\ lastOp' = [op |-> "get_experiences", ok |-> TRUE]
    /\ UNCHANGED <<resumeVars, settings, users, texts, dateVars, projectVars, dur, extraVars, contentVars>>

\* PublicController.get_education; every row of the page goes through
\* EducationSchema.from_education, and a row that fails it fails the request
GetEducation(current, page, page_size) ==
    /\ \E list \in Perms({i \in DOMAIN educations :
                              MatchesCurrent(educations[i], current)}),
          today \in SampleDates :
          /\ \A i, j \in 1..Len(list) :
                i < j => DatedOrderLE(educations[list[i]], educations[list[j]])
          /\ LET r == PaginatedResponse("get_education", list, page, page_size)
             IN  resp' = IF \A k \in 1..Len(r.items) :
                              EducationSchema_from_education(educations[r.items[k]],
                                                             today).ok
                         THEN r
                         ELSE [op |-> "get_education", status |-> 500,
                               error |-> "ValidationError"]
    /\ lastOp' = [op |-> "get_education", ok |-> TRUE]
    /\ UNCHANGED <<resumeVars, settings, users, texts, dateVars, projectVars, dur, extraVars, contentVars>>

(***************************************************************************)
(* DemoStat   (accounts/models.py: class DemoStat)                         *)
(* Times are whole seconds on one clock.                                   *)
(***************************************************************************)
DemoStatIds == 1..MaxDemoStats

NoTime == -1

SecondsPerDay == 86400

\* datetime - datetime: a timedelta, normalised to days and 0 <= seconds < 86400
Timedelta(d) == [days |-> d \div SecondsPerDay, seconds |-> d % SecondsPerDay]

\* timedelta.seconds
TimedeltaSeconds(td) == td.seconds

\* DemoStat.save; start_time is auto_now_add: a new instance has none until
\* the insert itself, so the subtraction fails on it with a TypeError
DemoStat_save(db, inst, now) ==
    IF inst.end_time # NoTime /\ inst.start_time = NoTime
    THEN [db |-> db, ok |-> FALSE, error |-> "TypeError"]
    ELSE LET duration == IF inst.end_time # NoTime
                         THEN TimedeltaSeconds(Timedelta(inst.end_time - inst.start_time))
                         ELSE inst.duration
             start == IF inst.id \in DOMAIN db THEN inst.start_time ELSE now
         IN  [db |-> Put(db, inst.id, [start_time |-> start, end_time |-> inst.end_time,
                                       duration |-> duration]),
              ok |-> TRUE, error |-> "none"]

\* DemoStat(...).save() on a new instance: duration has its default 0
CreateDemoStat(id, end, now) ==
    /\ id \notin DOMAIN demoStats
    /\ LET inst == [id |-> id, start_time |-> NoTime, end_time |-> end, duration |-> 0]
           r == DemoStat_save(demoStats, inst, now)
       IN  /\ demoStats' = r.db
           /\ lastOp' = [op |-> "DemoStat.save", id |-> id, ok |-> r.ok, error |-> r.error,
                         end_time |-> end, before |-> 0]
    /\ UNCHANGED <<resumeVars, settings, users, texts, dateVars, projectVars, dur, resp,
                   messages, procs, contentVars>>

\* A stored DemoStat is loaded, its end_time set (or left unset) and saved
ChangeDemoStat(id, end, now) ==
    /\ id \in DOMAIN demoStats
    /\ LET inst == [id |-> id, start_time |-> demoStats[id].start_time,
                    end_time |-> end, duration |-> demoStats[id].duration]
           r == DemoStat_save(demoStats, inst, now)
       IN  /\ demoStats' = r.db
           /\ lastOp' = [op |-> "DemoStat.save", id |-> id, ok |-> r.ok, error |-> r.error,
                         end_time |-> end, before |-> demoStats[id].duration]
    /\ UNCHANGED <<resumeVars, settings, users, texts, dateVars, projectVars, dur, resp,
                   messages, procs, contentVars>>

\* demo_stat.delete()
DeleteDemoStat(id) ==
    /\ id \in DOMAIN demoStats
    /\ demoStats' = Drop(demoStats, {id})
    /\ lastOp' = [op |-> "DemoStat.delete", id |-> id, ok |-> TRUE]
    /\ UNCHANGED <<resumeVars, settings, users, texts, dateVars, projectVars, dur, resp,
                   messages, procs, contentVars>>

(***************************************************************************)
(* ContactMessage   (accounts/models.py: class ContactMessage;             *)
(* frontpanel/apis/controller.py: send_contact_message)                    *)
(***************************************************************************)
MessageIds == 1..MaxMessages

NameMaxLength == 100

SubjectMaxLength == 200

RECURSIVE Repeat(_, _)
Repeat(c, n) == IF n = 0 THEN "" ELSE c \o Repeat(c, n - 1)

\* The values a ContactMessageCreateSchema carries: strings of any length
SubmittedNames == {"Ann", Repeat("n", NameMaxLength + 1)}

SubmittedEmails == {"ann@example.com"}

SubmittedSubjects == {"Hello", Repeat("s", SubjectMaxLength + 1)}

SubmittedMessages == {"Hi there", ""}

\* What the insert can do: a backend that enforces varchar lengths raises
\* DataError for a value longer than its column, one that does not stores
\* it; the database can fail on any insert
InsertOutcomes(row) ==
    {"stored", "OperationalError"}
        \cup (IF Len(row.name) > NameMaxLength \/ Len(row.subject) > SubjectMaxLength
              THEN {"DataError"} ELSE {})

\* A mutant of the create: the row is written although the insert raised.
ContactMessage_create_WrittenOnError(db, id, row, outcome) ==
    [db |-> Put(db, id, row), ok |-> outcome = "stored", error |-> outcome]

\* ContactMessage.objects.create(name=..., email=..., subject=..., message=...):
\* the fields not given take their defaults
ContactMessage_create(db, id, row, outcome) ==
    IF outcome = "stored"
    THEN [db |-> Put(db, id, row), ok |-> TRUE, error |-> "none"]
    ELSE [db |-> db, ok |-> FALSE, error |-> outcome]

\* PublicController.send_contact_message; id is the new uuid4
SendContactMessage(id, name, email, subject, message, outcome) ==
    /\ id \notin DOMAIN messages
    /\ LET row == [name |-> name, email |-> email, subject |-> subject,
                   message |-> message, status |-> "new", is_spam |-> FALSE]
           submitted == [name |-> name, email |-> email, subject |-> subject,
                         message |-> message]
       IN  /\ outcome \in InsertOutcomes(row)
           /\ LET r == ContactMessage_create(messages, id, row, outcome)
              IN  /\ messages' = r.db
                  /\ resp' = [op |-> "send_contact_message",
                              status |-> IF r.ok THEN 201 ELSE 400,
                              submitted |-> submitted, before |-> messages]
    /\ lastOp' = [op |-> "send_contact_message", ok |-> TRUE]
    /\ UNCHANGED <<resumeVars, settings, users, texts, dateVars, projectVars, dur,
                   demoStats, procs, contentVars>>

\* The admin edits a stored message: its status and its spam mark
AdminChangeMessage(id, status, spam) ==
    /\ id \in DOMAIN messages
    /\ messages' = [messages EXCEPT ![id].status = status, ![id].is_spam = spam]
    /\ lastOp' = [op |-> "ContactMessage.save", id |-> id, ok |-> TRUE]
    /\ resp' = NoResp
    /\ UNCHANGED <<resumeVars, settings, users, texts, dateVars, projectVars, dur,
                   demoStats, procs, contentVars>>

\* The admin deletes a stored message
DeleteMessage(id) ==
    /\ id \in DOMAIN messages
    /\ messages' = Drop(messages, {id})
    /\ lastOp' = [op |-> "ContactMessage.delete", id |-> id, ok |-> TRUE]
    /\ resp' = NoResp
    /\ UNCHANGED <<resumeVars, settings, users, texts, dateVars, projectVars, dur,
                   demoStats, procs, contentVars>>

(***************************************************************************)
(* The detail requests   (frontpanel/apis/controller.py:                   *)
(* get_experience_detail, get_education_detail, get_resume_detail,         *)
(* download_resume) and the serialisation of an Education                  *)
(* (frontpanel/schemas.py: EducationSchema.from_education)                 *)
(***************************************************************************)

\* The identifier of a request path: the text of a uuid (wf, standing for
\* the row id) or any other string
Identifiers ==
    [wf : {TRUE}, id : 1..(MaxListed + 1)] \cup [wf : {FALSE}, id : {0}]

\* Model.objects.get(id=identifier, ...) on a UUIDField primary key:
\* UUIDField.to_python raises ValidationError for a string that is no uuid,
\* which is not the DoesNotExist the handlers catch
GetById(table, ident, visible) ==
    IF ~ident.wf THEN "ValidationError"
    ELSE IF ident.id \in DOMAIN table /\ ident.id \in visible THEN "found"
    ELSE "DoesNotExist"

\* The status the handlers answer a failed lookup with
LookupStatus(outcome) ==
    IF outcome = "found" THEN 200
    ELSE IF outcome = "DoesNotExist" THEN 404
    ELSE 500

\* PublicController.get_experience_detail
GetExperienceDetail(ident) ==
    /\ LET outcome == GetById(experiences, ident, DOMAIN experiences)
       IN  resp' = [op |-> "get_experience_detail", ident |-> ident,
                    status |-> LookupStatus(outcome)]
    /\ lastOp' = [op |-> "get_experience_detail", ok |-> TRUE]
    /\ UNCHANGED <<resumeVars, settings, users, texts, dateVars, projectVars, dur,
                   extraVars, contentVars>>

\* PublicController.get_education_detail
GetEducationDetail(ident, today) ==
    /\ LET outcome == GetById(educations, ident, DOMAIN educations)
       IN  resp' =
             IF outcome # "found"
             THEN [op |-> "get_education_detail", ident |-> ident,
                   status |-> LookupStatus(outcome)]
             ELSE LET s == EducationSchema_from_education(educations[ident.id], today)
                  IN  [op |-> "get_education_detail", ident |-> ident,
                       status |-> IF s.ok THEN 200 ELSE 500,
                       today |-> today, duration_years |-> s.duration_years]
    /\ lastOp' = [op |-> "get_education_detail", ok |-> TRUE]
    /\ UNCHANGED <<resumeVars, settings, users, texts, dateVars, projectVars, dur,
                   extraVars, contentVars>>

\* Resume.file_size of an instance in memory.  The property file_size_human
\* divides it by 1024.0 in place, which is exact in floating point: the value
\* is n / 1024^k.
LoadedFileSize(n) == [n |-> n, k |-> 0]

Kilo == 1024

\* f"{x:.1f}" for x = n / d: the nearest tenth, an exact tie to the even digit
Format1f(n, d) ==
    LET q == n \div d
        r == n % d
        f == (r * 10) \div d
        rem == (r * 10) % d
        up == 2 * rem > d \/ (2 * rem = d /\ f % 2 = 1)
        tenths == q * 10 + f + (IF up THEN 1 ELSE 0)
    IN  ToString(tenths \div 10) \o "." \o ToString(tenths % 10)

\* the for loop of file_size_human over the units still to try; returns the
\* string and the file_size the instance is left with
RECURSIVE FileSizeLoop(_, _)
FileSizeLoop(fs, units) ==
    IF units = <<>>
    THEN [text |-> Format1f(fs.n, Kilo^fs.k) \o " TB", file_size |-> fs]
    ELSE IF fs.n \div (Kilo^fs.k) < Kilo
    THEN [text |-> Format1f(fs.n, Kilo^fs.k) \o " " \o Head(units), file_size |-> fs]
    ELSE FileSizeLoop([fs EXCEPT !.k = @ + 1], Tail(units))

\* Resume.file_size_human
Resume_file_size_human(fs) ==
    IF fs.n = 0 THEN [text |-> "Unknown", file_size |-> fs]
    ELSE FileSizeLoop(fs, <<"bytes", "KB", "MB", "GB">>)

\* resume.file_size_human if hasattr(resume, 'file_size_human') else None:
\* hasattr reads the property (it is getattr that does not raise), then the
\* conditional expression reads it again
FileSizeHumanIfHasattr(fs) ==
    Resume_file_size_human(Resume_file_size_human(fs).file_size).text

\* ProjectSchema.from_orm(project), as far as its fields are tracked
ProjectSchema_from_orm(db, id) ==
    [id |-> id, slug |-> db[id].slug, is_public |-> db[id].is_public]

\* [ProjectSchema.from_orm(proj).dict() for proj in resume.projects.all()]
Resume_projects(links, projectDb, id) ==
    {ProjectSchema_from_orm(projectDb, l[2]) : l \in {m \in links : m[1] = id}}

\* resume_dict of get_resumes and get_resume_detail, as far as its fields
\* are tracked
ResumeDict(db, links, projectDb, id) ==
    [id |-> id, is_primary |-> db[id].is_primary, is_public |-> db[id].is_public,
     file_size |-> db[id].file_size,
     file_size_human |-> FileSizeHumanIfHasattr(LoadedFileSize(db[id].file_size)),
     projects |-> Resume_projects(links, projectDb, id)]

\* The resumes Resume.objects.get(id=..., is_public=True) can match
PublicResumes(db) == {i \in DOMAIN db : db[i].is_public}

\* PublicController.get_resume_detail
GetResumeDetail(ident) ==
    /\ LET outcome == GetById(resumes, ident, PublicResumes(resumes))
       IN  resp' = IF outcome = "found"
                   THEN [op |-> "get_resume_detail", ident |-> ident, status |-> 200,
                         before |-> resumes,
                         data |-> ResumeDict(resumes, resumeProjects, projects, ident.id)]
                   ELSE [op |-> "get_resume_detail", ident |-> ident,
                         status |-> LookupStatus(outcome), before |-> resumes]
    /\ lastOp' = [op |-> "get_resume_detail", ok |-> TRUE]
    /\ UNCHANGED <<resumeVars, settings, users, texts, dateVars, projectVars, dur,
                   extraVars, contentVars>>

\* PublicController.download_resume; onDisk tells whether the stored file
\* exists: save() reads self.file.size and the handler opens the file, and
\* both raise when it does not; a resume without a file has no file.path
DownloadResume(ident, onDisk) ==
    LET outcome == GetById(resumes, ident, PublicResumes(resumes))
    IN  IF outcome # "found"
        THEN /\ resp' = [op |-> "download_resume", ident |-> ident,
                         status |-> LookupStatus(outcome), before |-> resumes]
             /\ lastOp' = [op |-> "download_resume", ok |-> FALSE]
             /\ UNCHANGED <<resumeVars, settings, users, texts, dateVars, projectVars,
                            dur, extraVars, contentVars>>
        ELSE LET inst == ResumeLoad(resumes, ident.id)
                 hasFile == inst.file # 0
                 r == Resume_increment_download_count(resumes, inst)
                 saved == (hasFile => onDisk) /\ r.ok
             IN  /\ resumeHist[ident.id].downloads < MaxIncrements
                 /\ resumes' = IF saved THEN r.db ELSE resumes
                 /\ resumeHist' = IF saved
                                  THEN [resumeHist EXCEPT ![ident.id].downloads = @ + 1]
                                  ELSE resumeHist
                 /\ resp' = [op |-> "download_resume", ident |-> ident,
                             status |-> IF saved /\ hasFile THEN 200 ELSE 500,
                             before |-> resumes]
                 /\ lastOp' = [op |-> "download_resume", ok |-> saved]
                 /\ UNCHANGED <<settings, users, texts, dateVars, projectVars, dur,
                                extraVars, contentVars>>

(***************************************************************************)
(* Concurrent requests on resumes.  Resume.save opens no transaction, so   *)
(* its two statements (the UPDATE that clears the other primaries, then    *)
(* the INSERT or UPDATE of Model.save) commit one after the other, and a   *)
(* request holds the instance it loaded while other requests run.          *)
(***************************************************************************)
ProcIds == 1..MaxProcs

Idle == [pc |-> "idle", n |-> 0]

\* Requests started so far
RequestsStarted ==
    LET RECURSIVE Sum(_)
        Sum(S) == IF S = {} THEN 0
                  ELSE LET p == CHOOSE x \in S : TRUE IN procs[p].n + Sum(S \ {p})
    IN  Sum(DOMAIN procs)

\* A caller loads resume id, sets is_primary and calls save(): the call is
\* at the start of Resume.save
StartSave(p, id, prim) ==
    /\ procs[p].pc = "idle" /\ id \in DOMAIN resumes
    /\ RequestsStarted < MaxRequests
    /\ procs' = [procs EXCEPT ![p] =
                    [pc |-> "clear", n |-> procs[p].n + 1, kind |-> "save",
                     inst |-> [ResumeLoad(resumes, id) EXCEPT !.is_primary = prim],
                     update_fields |-> FullSave]]
    /\ lastOp' = [op |-> "load", id |-> id, ok |-> TRUE]
    /\ UNCHANGED <<resumeVars, settings, users, texts, dateVars, projectVars, dur, resp,
                   demoStats, messages, contentVars>>

\* download_resume up to the call of increment_download_count:
\* Resume.objects.get(id=resume_id, is_public=True) and download_count += 1
\* on the loaded instance
StartDownload(p, id) ==
    /\ procs[p].pc = "idle" /\ id \in PublicResumes(resumes)
    /\ RequestsStarted < MaxRequests
    /\ procs' = [procs EXCEPT ![p] =
                    [pc |-> "clear", n |-> procs[p].n + 1, kind |-> "download",
                     inst |-> [ResumeLoad(resumes, id) EXCEPT !.download_count = @ + 1],
                     update_fields |-> {"download_count"}]]
    /\ lastOp' = [op |-> "load", id |-> id, ok |-> TRUE]
    /\ UNCHANGED <<resumeVars, settings, users, texts, dateVars, projectVars, dur, resp,
                   demoStats, messages, contentVars>>

\* Resume.save, first statement: file_size is set and, when the instance is
\* primary, the other primaries are cleared
SaveClear(p) ==
    /\ procs[p].pc = "clear"
    /\ LET inst  == procs[p].inst
           sized == IF inst.file # 0 THEN [inst EXCEPT !.file_size = inst.file] ELSE inst
       IN  /\ resumes' = IF sized.is_primary
                         THEN ClearOtherPrimaries(resumes, sized.id) ELSE resumes
           /\ procs' = [procs EXCEPT ![p].pc = "write", ![p].inst = sized]
           /\ lastOp' = [op |-> "Resume.save.clear", id |-> sized.id, ok |-> TRUE,
                         is_primary |-> sized.is_primary,
                         others |-> {i \in DOMAIN resumes :
                                        i # sized.id /\ resumes[i].is_primary}]
    /\ UNCHANGED <<resumeHist, settings, users, texts, dateVars, projectVars, dur, resp,
                   demoStats, messages, contentVars>>

\* Resume.save, second statement: super().save(*args, **kwargs); fails
\* tells that the database refused the statement
SaveWrite(p, fails) ==
    /\ procs[p].pc = "write"
    /\ LET inst == procs[p].inst
           r == IF fails THEN [db |-> resumes, ok |-> FALSE]
                ELSE ResumeBaseSave(resumes, inst, procs[p].update_fields)
       IN  /\ resumes' = r.db
           /\ resumeHist' = IF r.ok /\ procs[p].kind = "download"
                            THEN [resumeHist EXCEPT ![inst.id].downloads = @ + 1]
                            ELSE resumeHist
           /\ lastOp' = [op |-> "Resume.save.write", id |-> inst.id, ok |-> r.ok,
                         is_primary |-> inst.is_primary, kind |-> procs[p].kind]
    /\ procs' = [procs EXCEPT ![p] = [pc |-> "idle", n |-> procs[p].n]]
    /\ UNCHANGED <<settings, users, texts, dateVars, projectVars, dur, resp,
                   demoStats, messages, contentVars>>

\* PublicController.get_primary_resume, as far as the lookup
GetPrimaryResume ==
    /\ LET found == {i \in DOMAIN resumes : resumes[i].is_primary /\ resumes[i].is_public}
       IN  resp' = IF found = {}
                   THEN [op |-> "get_primary_resume", status |-> 404]
                   ELSE [op |-> "get_primary_resume", status |-> 200,
                         id |-> CHOOSE i \in found : TRUE]
    /\ lastOp' = [op |-> "get_primary_resume", ok |-> TRUE]
    /\ UNCHANGED <<resumeVars, settings, users, texts, dateVars, projectVars, dur,
                   extraVars, contentVars>>

(***************************************************************************)
(* Concurrent requests on the settings.  The admin saves inside the        *)
(* transaction of its change view and get_or_create creates inside         *)
(* transaction.atomic: the DELETE of SiteSettings.save sees the rows       *)
(* committed when it runs, and the transaction's delete and insert become  *)
(* visible together at its commit (READ COMMITTED).                        *)
(***************************************************************************)

\* The uuids of a request in progress
IdsInUse == {procs[p].inst.id : p \in {q \in DOMAIN procs : procs[q].pc # "idle"}}

\* The admin saves a SiteSettings instance: a new one (has_add_permission
\* allows it while the table is empty) or the stored one, edited
StartSettingsSave(p, id, name) ==
    /\ procs[p].pc = "idle"
    /\ RequestsStarted < MaxRequests
    /\ id \notin IdsInUse
    /\ id \notin DOMAIN settings => DOMAIN settings = {}
    /\ procs' = [procs EXCEPT ![p] =
                    [pc |-> "delete", n |-> procs[p].n + 1, kind |-> "save",
                     inst |-> [id |-> id, site_name |-> name]]]
    /\ lastOp' = [op |-> "SiteSettings.save.start", id |-> id, ok |-> TRUE]
    /\ UNCHANGED <<resumeVars, settings, users, texts, dateVars, projectVars, dur, resp,
                   demoStats, messages, contentVars>>

\* get_active_settings: the get() of objects.get_or_create(); with no row it
\* goes on to create one under the fresh uuid newId
SettingsGet(p, newId) ==
    /\ procs[p].pc = "idle"
    /\ RequestsStarted < MaxRequests
    /\ IF DOMAIN settings = {}
       THEN /\ newId \notin IdsInUse
            /\ procs' = [procs EXCEPT ![p] =
                            [pc |-> "delete", n |-> procs[p].n + 1, kind |-> "create",
                             inst |-> [id |-> newId, site_name |-> DefaultSiteName]]]
            /\ UNCHANGED resp
       ELSE /\ procs' = [procs EXCEPT ![p].n = @ + 1]
            /\ resp' = IF Cardinality(DOMAIN settings) = 1
                       THEN [op |-> "get_active_settings", status |-> 200,
                             settings |-> CHOOSE i \in DOMAIN settings : TRUE]
                       ELSE [op |-> "get_active_settings", status |-> 500,
                             error |-> "MultipleObjectsReturned"]
    /\ lastOp' = [op |-> "SiteSettings.get_active_settings", ok |-> TRUE]
    /\ UNCHANGED <<resumeVars, settings, users, texts, dateVars, projectVars, dur,
                   demoStats, messages, contentVars>>

\* SiteSettings.save, first statement:
\* self.__class__.objects.exclude(id=self.id).delete()
SettingsDelete(p) ==
    /\ procs[p].pc = "delete"
    /\ procs' = [procs EXCEPT ![p] =
                    [pc |-> "insert", n |-> procs[p].n, kind |-> procs[p].kind,
                     inst |-> procs[p].inst,
                     deleted |-> (DOMAIN settings) \ {procs[p].inst.id}]]
    /\ lastOp' = [op |-> "SiteSettings.save.delete", id |-> procs[p].inst.id, ok |-> TRUE]
    /\ UNCHANGED <<resumeVars, settings, users, texts, dateVars, projectVars, dur, resp,
                   demoStats, messages, contentVars>>

\* SiteSettings.save, second statement (super().save) and the commit
SettingsCommit(p) ==
    /\ procs[p].pc = "insert"
    /\ settings' = Put(Drop(settings, procs[p].deleted), procs[p].inst.id,
                       [site_name |-> procs[p].inst.site_name])
    /\ resp' = IF procs[p].kind = "create"
               THEN [op |-> "get_active_settings", status |-> 200,
                     settings |-> procs[p].inst.id]
               ELSE resp
    /\ procs' = [procs EXCEPT ![p] = [pc |-> "idle", n |-> procs[p].n]]
    /\ lastOp' = [op |-> "SiteSettings.save.commit", id |-> procs[p].inst.id, ok |-> TRUE]
    /\ UNCHANGED <<resumeVars, users, texts, dateVars, projectVars, dur,
                   demoStats, messages, contentVars>>

(***************************************************************************)
(* CodeSnippet   (accounts/models.py: class CodeSnippet)                   *)
(* The code body is a sequence of characters.                              *)
(***************************************************************************)
SnippetIds == 1..MaxSnippets

Newline == "\n"

CodeAlphabet == {Newline, "a"}

AllCodes == UNION {[1..n -> CodeAlphabet] : n \in 0..MaxCodeLen}

\* line_count = models.IntegerField(default=0): the values an admin form submits
SubmittedLineCounts == {0, 7}

\* str.count(sub) for a one-character sub
RECURSIVE StrCount(_, _)
StrCount(t, c) ==
    IF Len(t) = 0 THEN 0
    ELSE (IF Head(t) = c THEN 1 ELSE 0) + StrCount(Tail(t), c)

\* A mutant of CodeSnippet.save: the instance's line_count is written as it is.
CodeSnippet_save_KeepLineCount(db, inst) ==
    [db |-> Put(db, inst.id, [code |-> inst.code, line_count |-> inst.line_count,
                              project |-> inst.project, is_public |-> inst.is_public]),
     inst |-> inst]

\* CodeSnippet.save
CodeSnippet_save(db, inst) ==
    LET i2 == [inst EXCEPT !.line_count = StrCount(inst.code, Newline) + 1]
    IN [db |-> Put(db, i2.id, [code |-> i2.code, line_count |-> i2.line_count,
                               project |-> i2.project, is_public |-> i2.is_public]),
        inst |-> i2]

\* CodeSnippet(code=..., line_count=..., project=...).save(): the admin's add
\* form, whose line_count field is editable
CreateSnippet(id, code, line_count, project, pub) ==
    /\ id \notin DOMAIN snippets
    /\ project \in DOMAIN projects
    /\ LET inst == [id |-> id, code |-> code, line_count |-> line_count,
                    project |-> project, is_public |-> pub]
           r == CodeSnippet_save(snippets, inst)
       IN /\ snippets' = r.db
          /\ lastOp' = [op |-> "CodeSnippet.save", id |-> id, adding |-> TRUE,
                        submitted |-> line_count, code |-> code]
    /\ resp' = NoResp
    /\ UNCHANGED <<resumeVars, settings, users, texts, dateVars, projectVars, dur,
                   extraVars, demos, resumeProjects>>

\* snippet = CodeSnippet.objects.get(pk=id); the admin's change form sets code
\* and line_count; snippet.save()
ChangeSnippet(id, code, line_count) ==
    /\ id \in DOMAIN snippets
    /\ LET inst == [id |-> id, code |-> code, line_count |-> line_count,
                    project |-> snippets[id].project,
                    is_public |-> snippets[id].is_public]
           r == CodeSnippet_save(snippets, inst)
       IN /\ snippets' = r.db
          /\ lastOp' = [op |-> "CodeSnippet.save", id |-> id, adding |-> FALSE,
                        submitted |-> line_count, code |-> code]
    /\ resp' = NoResp
    /\ UNCHANGED <<resumeVars, settings, users, texts, dateVars, projectVars, dur,
                   extraVars, demos, resumeProjects>>

\* snippet.delete()
DeleteSnippet(id) ==
    /\ id \in DOMAIN snippets
    /\ snippets' = Drop(snippets, {id})
    /\ lastOp' = [op |-> "CodeSnippet.delete", id |-> id]
    /\ resp' = NoResp
    /\ UNCHANGED <<resumeVars, settings, users, texts, dateVars, projectVars, dur,
                   extraVars, demos, resumeProjects>>

(***************************************************************************)
(* DemoInstance   (accounts/models.py: class DemoInstance) and the         *)
(* requests that answer with project data                                  *)
(* (frontpanel/apis/controller.py: get_demos, get_resumes, get_home_data)  *)
(***************************************************************************)
DemoIds == 1..MaxDemos

DemoStatuses == {"online", "offline"}

\* A mutant of DemoInstanceSchema: Meta.fields = "__all__", so the admin
\* password is serialised with the rest.
DemoInstanceSchema_from_orm_AllFields(db, projectDb, id) ==
    [id |-> id, status |-> db[id].status, instance_url |-> db[id].instance_url,
     is_public |-> db[id].is_public, admin_password |-> db[id].admin_password,
     project |-> ProjectSchema_from_orm(projectDb, db[id].project)]

\* DemoInstanceSchema: the fields of Meta.fields (as far as tracked) and
\* project: ProjectSchema
DemoInstanceSchema_from_orm(db, projectDb, id) ==
    [id |-> id, status |-> db[id].status, instance_url |-> db[id].instance_url,
     is_public |-> db[id].is_public,
     project |-> ProjectSchema_from_orm(projectDb, db[id].project)]

\* The body get_demos answers with on the tables db and projectDb
DemosResponse(db, projectDb) ==
    [op |-> "get_demos", status |-> 200,
     items |-> {DemoInstanceSchema_from_orm(db, projectDb, i) :
                  i \in {j \in DOMAIN db : db[j].is_public /\ db[j].status = "online"}}]

\* PublicController.get_demos
GetDemos ==
    /\ resp' = DemosResponse(demos, projects)
    /\ lastOp' = [op |-> "get_demos", ok |-> TRUE]
    /\ UNCHANGED <<resumeVars, settings, users, texts, dateVars, projectVars, dur,
                   extraVars, contentVars>>

\* PublicController.get_resumes
GetResumes ==
    /\ resp' = [op |-> "get_resumes", status |-> 200,
                items |-> {ResumeDict(resumes, resumeProjects, projects, i) :
                             i \in PublicResumes(resumes)}]
    /\ lastOp' = [op |-> "get_resumes", ok |-> TRUE]
    /\ UNCHANGED <<resumeVars, settings, users, texts, dateVars, projectVars, dur,
                   extraVars, contentVars>>

RecentProjectsLimit == 4

\* PublicController.get_home_data, as far as it answers with projects:
\* recent_projects is Project.objects.filter(is_public=True)
\* .order_by("-created_at")[:4] (featured_projects carries the same
\* is_public=True filter) and primary_resume is
\* Resume.objects.filter(is_primary=True, is_public=True).first()
GetHomeData ==
    /\ LET public == {i \in DOMAIN projects : projects[i].is_public}
           primaries == {i \in DOMAIN resumes :
                            resumes[i].is_primary /\ resumes[i].is_public}
       IN  \E recent \in SUBSET public, first \in primaries \cup {0} :
              /\ Cardinality(recent) =
                    IF Cardinality(public) < RecentProjectsLimit
                    THEN Cardinality(public) ELSE RecentProjectsLimit
              /\ \A i \in recent, j \in public \ recent :
                    projects[i].created_at >= projects[j].created_at
              /\ first = 0 <=> primaries = {}
              /\ resp' = [op |-> "get_home_data", status |-> 200,
                          total_projects |-> Cardinality(public),
                          recent_projects |->
                             {ProjectSchema_from_orm(projects, i) : i \in recent},
                          primary_resume |->
                             IF first = 0 THEN {}
                             ELSE {ResumeDict(resumes, resumeProjects, projects, first)}]
    /\ lastOp' = [op |-> "get_home_data", ok |-> TRUE]
    /\ UNCHANGED <<resumeVars, settings, users, texts, dateVars, projectVars, dur,
                   extraVars, contentVars>>

\* Experience.duration_months; today is timezone.now().date()
Experience_duration_months(inst, today) ==
    IF ~inst.is_current /\ inst.end_date = NoDate THEN 0
    ELSE LET end_date == IF inst.is_current THEN today ELSE inst.end_date
             total_months == (Year(end_date) - Year(inst.start_date)) * 12
                             + (Month(end_date) - Month(inst.start_date))
         IN  Max(0, total_months)

\* Reading experience.duration_months after experience.duration, on the
\* same day
ReadDurationMonths(today) ==
    /\ dur.state = "read"
    /\ dur.is_current => today = dur.now
    /\ dur' = [dur EXCEPT !.state = "both",
                          !.duration_months = Experience_duration_months(dur, today)]
    /\ lastOp' = [op |-> "Experience.duration_months", ok |-> TRUE]
    /\ UNCHANGED <<resumeVars, settings, users, texts, dateVars, projectVars, resp,
                   extraVars, contentVars>>

\* Reading resume.file_size_human on the instance in memory
ReadFileSizeHuman ==
    /\ dur.state = "resume"
    /\ Len(dur.reads) < MaxReads
    /\ LET r == Resume_file_size_human(dur.file_size)
       IN  dur' = [dur EXCEPT !.file_size = r.file_size,
                              !.reads = Append(@, r.text)]
    /\ lastOp' = [op |-> "Resume.file_size_human", ok |-> TRUE]
    /\ UNCHANGED <<resumeVars, settings, users, texts, dateVars, projectVars, resp,
                   extraVars, contentVars>>

(***************************************************************************)
(* The settings requests   (frontpanel/apis/controller.py:                 *)
(* get_site_settings, get_maintenance_status, get_theme_settings,          *)
(* get_seo_settings, get_social_links, get_all_settings)                   *)
(* An ImageField is the stored path, NoFile when no file is set.           *)
(***************************************************************************)
NoFile == ""

\* None in a response
Null == "None"

SettingsDefaults ==
    [site_name |-> DefaultSiteName, logo |-> NoFile, favicon |-> NoFile,
     my_image |-> NoFile, admin_email |-> "admin@example.com",
     analytics_code |-> ""]

\* SiteSettings.get_active_settings as the handlers call it: the row
\* objects.get_or_create() returns, created with the defaults under the fresh
\* uuid newId when the table is empty
SiteSettings_get_active_settings(db, newId) ==
    IF DOMAIN db = {}
    THEN [db |-> SiteSettings_save(db, [id |-> newId, adding |-> TRUE] @@ SettingsDefaults),
          error |-> "none", obj |-> SettingsDefaults]
    ELSE IF Cardinality(DOMAIN db) = 1
    THEN [db |-> db, error |-> "none", obj |-> db[CHOOSE i \in DOMAIN db : TRUE]]
    ELSE [db |-> db, error |-> "MultipleObjectsReturned", obj |-> SettingsDefaults]

\* f"{base_url}{image.url}" when the image is set, else None
MediaUrl(file) ==
    IF file # NoFile THEN "http://host" \o "/media/" \o file ELSE Null

SettingsEndpoints ==
    {"get_site_settings", "get_maintenance_status", "get_theme_settings",
     "get_seo_settings", "get_social_links", "get_all_settings"}

\* The body each settings handler builds from settings_obj, as far as its
\* fields are tracked.  get_all_settings assigns my_image_url only inside
\* if settings_obj.my_image: and then reads it.
SettingsResponse(op, obj) ==
    IF op = "get_site_settings"
    THEN [op |-> op, status |-> 200, site_name |-> obj.site_name,
          logo |-> MediaUrl(obj.logo), favicon |-> MediaUrl(obj.favicon)]
    ELSE IF op = "get_maintenance_status"
    THEN [op |-> op, status |-> 200, site_name |-> obj.site_name]
    ELSE IF op = "get_theme_settings"
    THEN [op |-> op, status |-> 200, site_name |-> obj.site_name,
          logo |-> MediaUrl(obj.logo), favicon |-> MediaUrl(obj.favicon)]
    ELSE IF op = "get_seo_settings"
    THEN [op |-> op, status |-> 200, site_name |-> obj.site_name,
          logo |-> MediaUrl(obj.logo)]
    ELSE IF op = "get_social_links"
    THEN [op |-> op, status |-> 200]
    ELSE IF obj.my_image = NoFile
    THEN [op |-> op, status |-> 500, error |-> "UnboundLocalError"]
    ELSE [op |-> op, status |-> 200, name |-> obj.site_name,
          logo |-> MediaUrl(obj.logo), favicon |-> MediaUrl(obj.favicon),
          my_image |-> MediaUrl(obj.my_image)]

\* What a settings request answers on the settings table db
SettingsAnswer(op, db, newId) ==
    LET got == SiteSettings_get_active_settings(db, newId)
    IN  IF got.error # "none"
        THEN [op |-> op, status |-> 500, error |-> got.error]
        ELSE SettingsResponse(op, got.obj)

\* One of the settings requests
GetSettings(op, newId) ==
    /\ settings' = SiteSettings_get_active_settings(settings, newId).db
    /\ resp' = SettingsAnswer(op, settings, newId)
    /\ lastOp' = [op |-> op, ok |-> TRUE, before |-> settings]
    /\ UNCHANGED <<resumeVars, users, texts, dateVars, projectVars, dur, extraVars,
                   contentVars>>

\* The admin's add form (allowed while the table is empty) or change form of
\* the settings, saved
SaveSettingsForm(id, form) ==
    /\ id \notin DOMAIN settings => DOMAIN settings = {}
    /\ settings' = SiteSettings_save(settings,
                                     [id |-> id, adding |-> id \notin DOMAIN settings]
                                        @@ form)
    /\ lastOp' = [op |-> "SiteSettings.save", id |-> id, ok |-> TRUE]
    /\ resp' = NoResp
    /\ UNCHANGED <<resumeVars, users, texts, dateVars, projectVars, dur, extraVars,
                   contentVars>>

(***************************************************************************)
(* Routing of the resume paths.  The routes of a controller become URL     *)
(* patterns in the order of their declaration and the URL resolver takes   *)
(* the first pattern that matches; a path parameter declared str matches   *)
(* any segment.                                                            *)
(***************************************************************************)

\* The @route.get declarations under /resumes/, in the order of the class body
ResumeRoutes ==
    << [pattern |-> <<"resumes", "{resume_id}">>, op |-> "get_resume_detail"],
       [pattern |-> <<"resumes", "primary">>, op |-> "get_primary_resume"],
       [pattern |-> <<"resumes", "{resume_id}", "download">>, op |-> "download_resume"] >>

\* The text of the uuid of record i
UuidText(i) == "uuid-" \o ToString(i)

\* The value of a path segment passed as resume_id: str
ParseIdentifier(segment) ==
    IF \E i \in 1..(MaxListed + 1) : UuidText(i) = segment
    THEN [wf |-> TRUE, id |-> CHOOSE i \in 1..(MaxListed + 1) : UuidText(i) = segment]
    ELSE [wf |-> FALSE, id |-> 0]

\* A URL pattern matches a path
PatternMatches(pattern, path) ==
    /\ Len(pattern) = Len(path)
    /\ \A k \in 1..Len(path) : pattern[k] = "{resume_id}" \/ pattern[k] = path[k]

\* The operation of the first route that matches, "" when none does
Resolve(routes, path) ==
    LET hits == {k \in 1..Len(routes) : PatternMatches(routes[k].pattern, path)}
    IN  IF hits = {} THEN ""
        ELSE routes[CHOOSE k \in hits : \A h \in hits : k <= h].op

\* The operation that serves a path of the public API
RouteOf(path) == Resolve(ResumeRoutes, path)

\* GET of a path under /resumes/
GetResumePath(path, onDisk) ==
    LET op == RouteOf(path)
    IN  IF op = "get_resume_detail" THEN GetResumeDetail(ParseIdentifier(path[2]))
        ELSE IF op = "get_primary_resume" THEN GetPrimaryResume
        ELSE IF op = "download_resume" THEN DownloadResume(ParseIdentifier(path[2]), onDisk)
        ELSE /\ resp' = [op |-> "not_found", status |-> 404]
             /\ lastOp' = [op |-> "not_found", ok |-> FALSE]
             /\ UNCHANGED <<resumeVars, settings, users, texts, dateVars, projectVars,
                            dur, extraVars, contentVars>>

NoDur == [state |-> "unused"]

InitRest ==
    /\ resumes = EmptyTable /\ resumeHist = EmptyTable
    /\ settings = EmptyTable
    /\ users = EmptyTable
    /\ texts = EmptyTable
    /\ experiences = EmptyTable /\ educations = EmptyTable
    /\ projects = EmptyTable
    /\ lastOp = NoOp
    /\ resp = NoResp
    /\ demoStats = EmptyTable /\ messages = EmptyTable /\ procs = EmptyTable
    /\ snippets = EmptyTable /\ demos = EmptyTable /\ resumeProjects = {}

InitResume == InitRest /\ dur = NoDur

NextResume ==
    \/ \E id \in ResumeIds, prim \in BOOLEAN, pub \in BOOLEAN, size \in ResumeFileSizes :
            CreateResume(id, prim, pub, size)
    \/ \E id \in ResumeIds, prim \in BOOLEAN, pub \in BOOLEAN : ChangeResume(id, prim, pub)
    \/ \E id \in ResumeIds : IncrementDownloadCount(id)
    \/ \E id \in ResumeIds : IncrementViewCount(id)
    \/ \E id \in ResumeIds : DeleteResume(id)

SpecResume == InitResume /\ [][NextResume]_vars

InitSettings == InitRest /\ dur = NoDur

NextSettings ==
    \/ \E id \in SettingsIds, name \in SiteNames : SaveNewSettings(id, name)
    \/ \E id \in SettingsIds, name \in SiteNames : SaveStoredSettings(id, name)
    \/ \E id \in SettingsIds : GetActiveSettings(id)
    \/ \E id \in SettingsIds : DeleteSettings(id)

SpecSettings == InitSettings /\ [][NextSettings]_vars

InitUsers == InitRest /\ dur = NoDur

NextUsers ==
    \/ \E id \in UserIds, staff \in BOOLEAN, super \in BOOLEAN, admin \in BOOLEAN :
            SaveUser(id, staff, super, admin)
    \/ \E id \in UserIds : DeleteUser(id)

SpecUsers == InitUsers /\ [][NextUsers]_vars

InitTexts == InitRest /\ dur = NoDur

NextTexts ==
    \/ \E id \in TextIds, text \in AllTexts, delay \in Delays, speed \in Speeds,
          active \in BOOLEAN : SaveText(id, text, delay, speed, active)
    \/ \E ids \in SUBSET TextIds : ActivateTexts(ids)
    \/ \E ids \in SUBSET TextIds : DeactivateTexts(ids)
    \/ \E id \in TextIds : DeleteText(id)

SpecTexts == InitTexts /\ [][NextTexts]_vars


\* (grade_value, grade_scale) pairs: within the scale, above the scale
SampleGrades == {<<3, 4>>, <<5, 4>>}

InitDated == InitRest /\ dur = NoDur

NextDated ==
    \/ \E id \in ExperienceIds, start \in SampleDates, end \in SampleDates \cup {NoDate},
          current \in BOOLEAN : SaveExperience(id, start, end, current, 0)
    \/ \E id \in ExperienceIds : DeleteExperience(id)
    \/ \E id \in EducationIds, start \in SampleDates, end \in SampleDates \cup {NoDate},
          current \in BOOLEAN, g \in SampleGrades :
            SaveEducation(id, start, end, current, 0, g[1], g[2])
    \/ \E id \in EducationIds : DeleteEducation(id)

SpecDated == InitDated /\ [][NextDated]_vars

InitProjects == InitRest /\ dur = NoDur

NextProjects ==
    \/ \E id \in ProjectIds, slug \in Slugs, pub \in BOOLEAN :
            CreateProject(id, slug, pub, 0, 1, NoDate, NoDate)
    \/ \E id \in ProjectIds, slug \in Slugs, pub \in BOOLEAN :
            ChangeProject(id, slug, pub, 0, NoDate, NoDate)
    \/ \E id \in ProjectIds : DeleteProject(id)
    \/ \E slug \in Slugs : GetProjectDetail(slug)

SpecProjects == InitProjects /\ [][NextProjects]_vars

\* Project writes with dates: each project keeps the slug of its id
ProjectDates == {NoDate} \cup SampleDates

SlugOf(id) == ToString(id)

NextProjectDates ==
    \/ \E id \in ProjectIds, start, completion \in ProjectDates :
            CreateProject(id, SlugOf(id), TRUE, 0, 1, start, completion)
    \/ \E id \in ProjectIds, start, completion \in ProjectDates :
            ChangeProject(id, SlugOf(id), TRUE, 0, start, completion)
    \/ \E id \in ProjectIds, start, completion \in ProjectDates :
            AdminSaveProject(id, SlugOf(id), TRUE, 0, 1, start, completion)
    \/ \E id \in ProjectIds : DeleteProject(id)

SpecProjectDates == InitProjects /\ [][NextProjectDates]_vars

\* The stored rows the lists are read from: n rows with ids 1..n
ListedProjects ==
    UNION {[1..n -> [slug : {"alpha"}, is_public : BOOLEAN, order : {0, 1},
                     created_at : {1}, start_date : {NoDate},
                     completion_date : {NoDate}]] : n \in 0..MaxListed}

ListedExperiences ==
    UNION {[1..n -> [start_date : {<<2020, 1, 1>>}, end_date : {NoDate},
                     is_current : BOOLEAN, order : {0}]] : n \in 0..MaxListed}

ListedEducations ==
    UNION {[1..n -> [start_date : {<<2020, 1, 1>>}, end_date : {NoDate},
                     is_current : BOOLEAN, order : {0},
                     grade_value : {3}, grade_scale : {4}]] : n \in 0..MaxListed}

\* Slugs are unique: the i-th project has the i-th slug
Reslug(t) == [i \in DOMAIN t |-> [t[i] EXCEPT !.slug = ToString(i)]]

Pages == (-1)..(MaxListed + 1)

PageSizes == 1..MaxPageSize

\* Each list reads its own table: one of the three is populated.
InitPaging ==
    /\ resumes = EmptyTable /\ resumeHist = EmptyTable
    /\ settings = EmptyTable /\ users = EmptyTable /\ texts = EmptyTable
    /\ dur = NoDur /\ lastOp = NoOp /\ resp = NoResp
    /\ demoStats = EmptyTable /\ messages = EmptyTable /\ procs = EmptyTable
    /\ snippets = EmptyTable /\ demos = EmptyTable /\ resumeProjects = {}
    /\ \/ /\ \E t \in ListedProjects : projects = Reslug(t)
          /\ experiences = EmptyTable /\ educations = EmptyTable
       \/ /\ projects = EmptyTable
          /\ experiences \in ListedExperiences /\ educations = EmptyTable
       \/ /\ projects = EmptyTable
          /\ experiences = EmptyTable /\ educations \in ListedEducations

NextPaging ==
    \/ \E page \in Pages, size \in PageSizes : GetProjects(page, size)
    \/ \E current \in CurrentFilter, page \in Pages, size \in PageSizes :
            GetExperiences(current, page, size)
    \/ \E current \in CurrentFilter, page \in Pages, size \in PageSizes :
            GetEducation(current, page, size)

SpecPaging == InitPaging /\ [][NextPaging]_vars

\* An Experience as it is stored: a current one has no end_date.
InitDuration ==
    /\ InitRest
    /\ \E start \in AllDates, current \in BOOLEAN, end \in AllDates \cup {NoDate} :
          /\ current => end = NoDate
          /\ dur = [state |-> "instance", start_date |-> start, end_date |-> end,
                    is_current |-> current, now |-> NoDate, duration |-> "unread"]

NextDuration ==
    \E today \in AllDates : ReadDuration(today)

SpecDuration == InitDuration /\ [][NextDuration]_vars

\* Session times: within a day of the start, and past it
SampleTimes == {0, 30, SecondsPerDay, SecondsPerDay + 30}

InitDemoStats == InitRest /\ dur = NoDur

NextDemoStats ==
    \/ \E id \in DemoStatIds, end \in SampleTimes \cup {NoTime}, now \in SampleTimes :
            CreateDemoStat(id, end, now)
    \/ \E id \in DemoStatIds, end \in SampleTimes \cup {NoTime}, now \in SampleTimes :
            ChangeDemoStat(id, end, now)
    \/ \E id \in DemoStatIds : DeleteDemoStat(id)

SpecDemoStats == InitDemoStats /\ [][NextDemoStats]_vars

\* The stored rows whose order in the lists is observed: rows differ in
\* their order field and in their recency
OrderedProjects ==
    UNION {[1..n -> [slug : {"alpha"}, is_public : {TRUE}, order : {0, 1},
                     created_at : {1, 2}, start_date : {NoDate},
                     completion_date : {NoDate}]] : n \in 0..MaxListed}

OrderedExperiences ==
    UNION {[1..n -> [start_date : SampleDates, end_date : {NoDate},
                     is_current : {FALSE}, order : {0, 1}]] : n \in 0..MaxListed}

OrderedEducations ==
    UNION {[1..n -> [start_date : SampleDates, end_date : {NoDate},
                     is_current : {TRUE}, order : {0, 1},
                     grade_value : {3}, grade_scale : {4}]] : n \in 0..MaxListed}

InitOrdering ==
    /\ resumes = EmptyTable /\ resumeHist = EmptyTable
    /\ settings = EmptyTable /\ users = EmptyTable /\ texts = EmptyTable
    /\ dur = NoDur /\ lastOp = NoOp /\ resp = NoResp
    /\ demoStats = EmptyTable /\ messages = EmptyTable /\ procs = EmptyTable
    /\ snippets = EmptyTable /\ demos = EmptyTable /\ resumeProjects = {}
    /\ \/ /\ \E t \in OrderedProjects : projects = Reslug(t)
          /\ experiences = EmptyTable /\ educations = EmptyTable
       \/ /\ projects = EmptyTable
          /\ experiences \in OrderedExperiences /\ educations = EmptyTable
       \/ /\ projects = EmptyTable
          /\ experiences = EmptyTable /\ educations \in OrderedEducations

NextOrdering ==
    \/ \E page \in 1..2, size \in PageSizes : GetProjects(page, size)
    \/ \E page \in 1..2, size \in PageSizes : GetExperiences("any", page, size)
    \/ \E page \in 1..2, size \in PageSizes : GetEducation("any", page, size)

SpecOrdering == InitOrdering /\ [][NextOrdering]_vars

MessageStatuses == {"new", "read"}

InitMessages == InitRest /\ dur = NoDur

NextMessages ==
    \/ \E id \in MessageIds, name \in SubmittedNames, email \in SubmittedEmails,
          subject \in SubmittedSubjects, message \in SubmittedMessages,
          outcome \in {"stored", "DataError", "OperationalError"} :
            SendContactMessage(id, name, email, subject, message, outcome)
    \/ \E id \in MessageIds, status \in MessageStatuses, spam \in BOOLEAN :
            AdminChangeMessage(id, status, spam)
    \/ \E id \in MessageIds : DeleteMessage(id)

SpecMessages == InitMessages /\ [][NextMessages]_vars

\* The stored rows the detail requests read
StoredResumes ==
    UNION {[1..n -> [is_primary : {FALSE}, is_public : BOOLEAN, file : {0, 2048},
                     file_size : {2048}, download_count : {0}, view_count : {0}]]
           : n \in 0..MaxListed}

StoredExperiences ==
    UNION {[1..n -> [start_date : SampleDates, end_date : {NoDate},
                     is_current : {TRUE}, order : {0}]] : n \in 0..1}

StoredEducations ==
    UNION {[1..n -> {e \in [start_date : SampleDates, end_date : SampleDates \cup {NoDate},
                            is_current : BOOLEAN, order : {0},
                            grade_value : {3}, grade_scale : {4}] :
                        Education_clean(e) = "valid"}] : n \in 0..1}

InitDetails ==
    /\ settings = EmptyTable /\ users = EmptyTable /\ texts = EmptyTable
    /\ dur = NoDur /\ lastOp = NoOp /\ resp = NoResp /\ projects = EmptyTable
    /\ demoStats = EmptyTable /\ messages = EmptyTable /\ procs = EmptyTable
    /\ snippets = EmptyTable /\ demos = EmptyTable /\ resumeProjects = {}
    /\ \/ /\ resumes \in StoredResumes
          /\ experiences = EmptyTable /\ educations = EmptyTable
       \/ /\ resumes = EmptyTable
          /\ experiences \in StoredExperiences /\ educations = EmptyTable
       \/ /\ resumes = EmptyTable
          /\ experiences = EmptyTable /\ educations \in StoredEducations
    /\ resumeHist = [i \in DOMAIN resumes |->
                        [download0 |-> 0, view0 |-> 0, downloads |-> 0, views |-> 0]]

NextDetails ==
    \/ \E ident \in Identifiers : GetExperienceDetail(ident)
    \/ \E ident \in Identifiers, today \in SampleDates : GetEducationDetail(ident, today)
    \/ \E ident \in Identifiers : GetResumeDetail(ident)
    \/ \E ident \in Identifiers, onDisk \in BOOLEAN : DownloadResume(ident, onDisk)

SpecDetails == InitDetails /\ [][NextDetails]_vars

\* Two public resumes are stored; the first is the primary
InitRaces ==
    /\ settings = EmptyTable /\ users = EmptyTable /\ texts = EmptyTable
    /\ experiences = EmptyTable /\ educations = EmptyTable /\ projects = EmptyTable
    /\ dur = NoDur /\ lastOp = NoOp /\ resp = NoResp
    /\ demoStats = EmptyTable /\ messages = EmptyTable
    /\ resumes = [i \in 1..2 |->
                    [is_primary |-> i = 1, is_public |-> TRUE, file |-> 2048,
                     file_size |-> 2048, download_count |-> 0, view_count |-> 0]]
    /\ resumeHist = [i \in 1..2 |->
                        [download0 |-> 0, view0 |-> 0, downloads |-> 0, views |-> 0]]
    /\ procs = [p \in ProcIds |-> Idle]
    /\ snippets = EmptyTable /\ demos = EmptyTable /\ resumeProjects = {}

NextPrimaryRace ==
    \/ \E p \in ProcIds, id \in 1..2, prim \in BOOLEAN : StartSave(p, id, prim)
    \/ \E p \in ProcIds : SaveClear(p)
    \/ \E p \in ProcIds, fails \in BOOLEAN : SaveWrite(p, fails)
    \/ GetPrimaryResume

SpecPrimaryRace == InitRaces /\ [][NextPrimaryRace]_vars

NextDownloadRace ==
    \/ \E p \in ProcIds, id \in 1..2 : StartDownload(p, id)
    \/ \E p \in ProcIds : SaveClear(p)
    \/ \E p \in ProcIds : SaveWrite(p, FALSE)

SpecDownloadRace == InitRaces /\ [][NextDownloadRace]_vars

\* The settings table is empty (a new site) or holds its one row
InitSettingsRace ==
    /\ resumes = EmptyTable /\ resumeHist = EmptyTable
    /\ users = EmptyTable /\ texts = EmptyTable
    /\ experiences = EmptyTable /\ educations = EmptyTable /\ projects = EmptyTable
    /\ dur = NoDur /\ lastOp = NoOp /\ resp = NoResp
    /\ demoStats = EmptyTable /\ messages = EmptyTable
    /\ settings \in {EmptyTable, [i \in {1} |-> [site_name |-> DefaultSiteName]]}
    /\ procs = [p \in ProcIds |-> Idle]
    /\ snippets = EmptyTable /\ demos = EmptyTable /\ resumeProjects = {}

NextSettingsRace ==
    \/ \E p \in ProcIds, id \in SettingsIds, name \in SiteNames :
            StartSettingsSave(p, id, name)
    \/ \E p \in ProcIds, newId \in SettingsIds : SettingsGet(p, newId)
    \/ \E p \in ProcIds : SettingsDelete(p)
    \/ \E p \in ProcIds : SettingsCommit(p)

SpecSettingsRace == InitSettingsRace /\ [][NextSettingsRace]_vars

\* Code snippets of one stored project.
InitSnippets ==
    /\ resumes = EmptyTable /\ resumeHist = EmptyTable
    /\ settings = EmptyTable /\ users = EmptyTable /\ texts = EmptyTable
    /\ experiences = EmptyTable /\ educations = EmptyTable
    /\ dur = NoDur /\ lastOp = NoOp /\ resp = NoResp
    /\ demoStats = EmptyTable /\ messages = EmptyTable /\ procs = EmptyTable
    /\ snippets = EmptyTable /\ demos = EmptyTable /\ resumeProjects = {}
    /\ projects = [i \in {1} |->
                     [slug |-> "alpha", is_public |-> TRUE, order |-> 0,
                      created_at |-> 0, start_date |-> NoDate,
                      completion_date |-> NoDate]]

NextSnippets ==
    \/ \E id \in SnippetIds, code \in AllCodes, n \in SubmittedLineCounts,
          project \in ProjectIds :
            CreateSnippet(id, code, n, project, TRUE)
    \/ \E id \in SnippetIds, code \in AllCodes, n \in SubmittedLineCounts :
            ChangeSnippet(id, code, n)
    \/ \E id \in SnippetIds : DeleteSnippet(id)

SpecSnippets == InitSnippets /\ [][NextSnippets]_vars

\* Downloads running while resumes are saved: a download holds the instance
\* it loaded while a save of another resume runs.
NextStaleInstance ==
    \/ \E p \in ProcIds, id \in 1..2, prim \in BOOLEAN : StartSave(p, id, prim)
    \/ \E p \in ProcIds, id \in 1..2 : StartDownload(p, id)
    \/ \E p \in ProcIds : SaveClear(p)
    \/ \E p \in ProcIds : SaveWrite(p, FALSE)

SpecStaleInstance == InitRaces /\ [][NextStaleInstance]_vars

\* Stored projects, demo instances and resumes with their linked projects,
\* read by the public requests.
LinkedProjects ==
    UNION {[1..n -> [slug : {"alpha"}, is_public : BOOLEAN, order : {0},
                     created_at : {1}, start_date : {NoDate},
                     completion_date : {NoDate}]] : n \in 1..MaxProjects}

\* project is a OneToOneField: no two demos of one project
StoredDemos(projectIds) ==
    {t \in UNION {[S -> [project : projectIds, is_public : BOOLEAN,
                         status : DemoStatuses,
                         instance_url : {"https://demo.example.com"}]]
                  : S \in SUBSET DemoIds} :
        \A i, j \in DOMAIN t : i # j => t[i].project # t[j].project}

LinkedResumes ==
    UNION {[1..n -> [is_primary : BOOLEAN, is_public : BOOLEAN, file : {2048},
                     file_size : {2048}, download_count : {0}, view_count : {0}]]
           : n \in 0..1}

InitVisibility ==
    /\ settings = EmptyTable /\ users = EmptyTable /\ texts = EmptyTable
    /\ experiences = EmptyTable /\ educations = EmptyTable
    /\ dur = NoDur /\ lastOp = NoOp /\ resp = NoResp
    /\ demoStats = EmptyTable /\ messages = EmptyTable /\ procs = EmptyTable
    /\ snippets = EmptyTable
    /\ \E t \in LinkedProjects : projects = Reslug(t)
    /\ demos \in StoredDemos(DOMAIN projects)
    /\ resumes \in LinkedResumes
    /\ resumeHist = [i \in DOMAIN resumes |->
                        [download0 |-> 0, view0 |-> 0, downloads |-> 0, views |-> 0]]
    /\ resumeProjects \in SUBSET ((DOMAIN resumes) \X (DOMAIN projects))

NextVisibility ==
    \/ \E page \in {1}, size \in PageSizes : GetProjects(page, size)
    \/ \E slug \in {"1", "2"} : GetProjectDetail(slug)
    \/ GetHomeData
    \/ GetDemos
    \/ GetResumes
    \/ \E ident \in Identifiers : GetResumeDetail(ident)

SpecVisibility == InitVisibility /\ [][NextVisibility]_vars

\* One experience in memory whose two derived durations are read.
InitBothDurations ==
    /\ InitRest
    /\ \E start \in AllDates, current \in BOOLEAN, end \in AllDates \cup {NoDate} :
          /\ current => end = NoDate
          /\ dur = [state |-> "instance", start_date |-> start, end_date |-> end,
                    is_current |-> current, now |-> NoDate, duration |-> "unread",
                    duration_months |-> 0]

NextBothDurations ==
    \/ \E today \in AllDates : ReadDuration(today)
    \/ \E today \in AllDates : ReadDurationMonths(today)

SpecBothDurations == InitBothDurations /\ [][NextBothDurations]_vars

\* file_size is set by Resume.save from the size of the stored file
SampleFileSizes == {0, 500, 1280, 2048, Kilo^3}

SizedResumes ==
    UNION {[1..n -> [is_primary : {FALSE}, is_public : {TRUE}, file : {2048},
                     file_size : SampleFileSizes, download_count : {0},
                     view_count : {0}]] : n \in 1..2}

\* Stored resumes, and one of them loaded into memory.
InitFileSize ==
    /\ settings = EmptyTable /\ users = EmptyTable /\ texts = EmptyTable
    /\ experiences = EmptyTable /\ educations = EmptyTable /\ projects = EmptyTable
    /\ lastOp = NoOp /\ resp = NoResp
    /\ demoStats = EmptyTable /\ messages = EmptyTable /\ procs = EmptyTable
    /\ snippets = EmptyTable /\ demos = EmptyTable /\ resumeProjects = {}
    /\ resumes \in SizedResumes
    /\ resumeHist = [i \in DOMAIN resumes |->
                        [download0 |-> 0, view0 |-> 0, downloads |-> 0, views |-> 0]]
    /\ dur = [state |-> "resume", id |-> 1,
              file_size |-> LoadedFileSize(resumes[1].file_size), reads |-> <<>>]

NextFileSize ==
    \/ ReadFileSizeHuman
    \/ GetResumes
    \/ \E ident \in Identifiers : GetResumeDetail(ident)

SpecFileSize == InitFileSize /\ [][NextFileSize]_vars

\* The choices of a settings form: the images and the sensitive fields
SettingsFormChoices ==
    [site_name : {DefaultSiteName}, logo : {NoFile, "logo.png"},
     favicon : {NoFile, "favicon.ico"}, my_image : {NoFile, "me.png"},
     sensitive : {[admin_email |-> "admin@example.com", analytics_code |-> ""],
                  [admin_email |-> "owner@example.com", analytics_code |-> "UA-1"]}]

\* The settings forms an admin submits
SettingsForms ==
    {[site_name |-> f.site_name, logo |-> f.logo, favicon |-> f.favicon,
      my_image |-> f.my_image, admin_email |-> f.sensitive.admin_email,
      analytics_code |-> f.sensitive.analytics_code] : f \in SettingsFormChoices}

SensitiveDemoFields == {"admin_url", "admin_username", "admin_password", "container_id"}

\* Stored demo instances (listed, not public, or offline) with their admin
\* access data (none set, or all set)
SensitiveDemos(projectIds) ==
    {t \in UNION {[S -> [project : projectIds, is_public : BOOLEAN,
                         status : DemoStatuses,
                         instance_url : {"https://demo.example.com"},
                         admin_url : {"", "https://demo.example.com/admin"},
                         admin_username : {"", "root"},
                         admin_password : {"", "hunter2"},
                         container_id : {"", "c0ffee"}]]
                  : S \in SUBSET DemoIds} :
        /\ \A i, j \in DOMAIN t : i # j => t[i].project # t[j].project
        /\ \A i \in DOMAIN t :
              (t[i].is_public \/ t[i].status = "online")
              /\ (t[i].admin_url = "") = (t[i].admin_password = "")
              /\ (t[i].admin_url = "") = (t[i].admin_username = "")
              /\ (t[i].admin_url = "") = (t[i].container_id = "")}

\* The settings table as the admin leaves it, and stored demo instances.
InitSettingsApi ==
    /\ resumes = EmptyTable /\ resumeHist = EmptyTable
    /\ users = EmptyTable /\ texts = EmptyTable
    /\ experiences = EmptyTable /\ educations = EmptyTable
    /\ dur = NoDur /\ lastOp = NoOp /\ resp = NoResp
    /\ demoStats = EmptyTable /\ messages = EmptyTable /\ procs = EmptyTable
    /\ snippets = EmptyTable /\ resumeProjects = {}
    /\ settings = EmptyTable
    /\ projects = [i \in DemoIds |->
                     [slug |-> ToString(i), is_public |-> TRUE, order |-> 0,
                      created_at |-> 1, start_date |-> NoDate,
                      completion_date |-> NoDate]]
    /\ demos \in SensitiveDemos(DOMAIN projects)

NextSettingsApi ==
    \/ \E id \in SettingsIds, form \in SettingsForms : SaveSettingsForm(id, form)
    \/ \E op \in SettingsEndpoints, newId \in SettingsIds : GetSettings(op, newId)
    \/ \E id \in SettingsIds : DeleteSettings(id)
    \/ GetDemos

SpecSettingsApi == InitSettingsApi /\ [][NextSettingsApi]_vars

\* The stored resumes the paths are requested on: at most one primary
RoutedResumes ==
    {t \in UNION {[1..n -> [is_primary : BOOLEAN, is_public : BOOLEAN, file : {2048},
                            file_size : {2048}, download_count : {0},
                            view_count : {0}]] : n \in 0..MaxListed} :
        Cardinality({i \in DOMAIN t : t[i].is_primary}) <= 1}

\* The paths requested
PrimaryPath == <<"resumes", "primary">>

RequestPaths ==
    {PrimaryPath, <<"resumes", "primary", "download">>, <<"resumes">>}
    \cup {<<"resumes", UuidText(i)>> : i \in 1..(MaxListed + 1)}
    \cup {<<"resumes", UuidText(i), "download">> : i \in 1..(MaxListed + 1)}

InitRouting ==
    /\ settings = EmptyTable /\ users = EmptyTable /\ texts = EmptyTable
    /\ dur = NoDur /\ lastOp = NoOp /\ resp = NoResp /\ projects = EmptyTable
    /\ experiences = EmptyTable /\ educations = EmptyTable
    /\ demoStats = EmptyTable /\ messages = EmptyTable /\ procs = EmptyTable
    /\ snippets = EmptyTable /\ demos = EmptyTable /\ resumeProjects = {}
    /\ resumes \in RoutedResumes
    /\ resumeHist = [i \in DOMAIN resumes |->
                        [download0 |-> 0, view0 |-> 0, downloads |-> 0, views |-> 0]]

NextRouting ==
    \E path \in RequestPaths, onDisk \in BOOLEAN : GetResumePath(path, onDisk)

SpecRouting == InitRouting /\ [][NextRouting]_vars

\* The keyword arguments the callers pass for the three flags
ExtraFieldChoices == UNION {[D -> BOOLEAN] : D \in SUBSET FlagNames}

Emails == {"", "a@example.com"}

NextManagers ==
    \/ \E id \in UserIds, email \in Emails, extra_fields \in ExtraFieldChoices :
            CreateUser(id, email, extra_fields)
    \/ \E id \in UserIds, email \in Emails, extra_fields \in ExtraFieldChoices :
            CreateSuperuser(id, email, extra_fields)
    \/ \E id \in UserIds : DeleteUser(id)

SpecManagers == InitUsers /\ [][NextManagers]_vars

(***************************************************************************)
(* Properties                                                              *)
(***************************************************************************)

\* C1: at most one resume has is_primary true in every reachable state, and
\* right after a completed Resume.save of resume X whose is_primary is true,
\* X is stored as primary and no other resume is primary.
C1_PrimaryExclusive ==
    /\ \A i, j \in DOMAIN resumes :
          resumes[i].is_primary /\ resumes[j].is_primary => i = j
    /\ (lastOp.op = "Resume.save" /\ lastOp.ok /\ lastOp.is_primary) =>
          /\ lastOp.id \in DOMAIN resumes
          /\ resumes[lastOp.id].is_primary
          /\ \A j \in (DOMAIN resumes) \ {lastOp.id} : ~resumes[j].is_primary

\* C1 witness: a save of X with is_primary true has completed while another
\* resume was the primary one.
C1_Witness ==
    /\ lastOp.op = "Resume.save" /\ lastOp.ok /\ lastOp.is_primary
    /\ lastOp.update_fields = FullSave
    /\ lastOp.others # {}
    /\ lastOp.others \subseteq DOMAIN resumes
    /\ resumes[lastOp.id].is_primary

\* C2: right after any SiteSettings.save, on a new or on a stored instance,
\* the table holds exactly one row, the one that save wrote.
C2_SingletonLastWriter ==
    lastOp.op = "SiteSettings.save" =>
        /\ DOMAIN settings = {lastOp.id}
        /\ settings[lastOp.id].site_name = lastOp.site_name

\* C2 witness: a save of a new instance has replaced the row of another one.
C2_Witness ==
    /\ lastOp.op = "SiteSettings.save"
    /\ lastOp.siblings # {}
    /\ lastOp.id \in DOMAIN settings

\* C3: a stored counter equals the value the resume was created with plus
\* the number of completed increment calls on that resume, for view_count
\* and for download_count.
C3_CountersCountCalls ==
    \A id \in DOMAIN resumes :
        /\ resumes[id].view_count = resumeHist[id].view0 + resumeHist[id].views
        /\ resumes[id].download_count =
               resumeHist[id].download0 + resumeHist[id].downloads

\* C3 witness: two increment_view_count calls have completed on one resume.
C3_Witness ==
    \E id \in DOMAIN resumes :
        /\ resumeHist[id].views = 2
        /\ resumes[id].view_count = resumeHist[id].view0 + 2

\* C9: right after any AdminUser.save the stored user has is_staff true and
\* is_superuser equal to the is_super_admin flag it was saved with.
C9_StaffAndSuperuserForced ==
    lastOp.op = "AdminUser.save" =>
        /\ lastOp.id \in DOMAIN users
        /\ users[lastOp.id].is_staff = TRUE
        /\ users[lastOp.id].is_super_admin = lastOp.is_super_admin
        /\ users[lastOp.id].is_superuser = lastOp.is_super_admin

\* C9 witness: a user was saved with is_staff false, is_superuser true and
\* the super-admin flag unset.
C9_Witness ==
    /\ lastOp.op = "AdminUser.save"
    /\ ~lastOp.is_staff /\ lastOp.is_superuser /\ ~lastOp.is_super_admin
    /\ lastOp.id \in DOMAIN users

\* A text with a character that is no whitespace.
NonBlank(t) == \E i \in 1..Len(t) : t[i] \notin Whitespace

\* C10: every stored RotatingText has a non-blank text, delay_seconds >= 0.5
\* and typing_speed >= 50, and a save of a record that breaks one of these
\* ends in a validation error and leaves the table as it was.
C10_RotatingTextValidated ==
    /\ [](\A id \in DOMAIN texts :
            /\ NonBlank(texts[id].text)
            /\ texts[id].delay_seconds >= MinDelayMs
            /\ texts[id].typing_speed >= MinTypingSpeed)
    /\ [][\A id \in TextIds, text \in AllTexts, delay \in Delays, speed \in Speeds,
             active \in BOOLEAN :
            (/\ SaveText(id, text, delay, speed, active)
             /\ (~NonBlank(text) \/ delay < MinDelayMs \/ speed < MinTypingSpeed))
            => (/\ texts' = texts
                /\ ~lastOp'.ok
                /\ lastOp'.error = "ValidationError")]_vars

\* C10 witness: a save was rejected while a text was stored.
C10_Witness ==
    /\ lastOp.op = "RotatingText.save"
    /\ ~lastOp.ok /\ lastOp.error = "ValidationError"
    /\ lastOp.id \in DOMAIN texts

\* C7: a save of an Experience or an Education with is_current true and an
\* end_date set succeeds and stores the record with is_current true and
\* end_date null.
C7_CurrentForcesEndNull ==
    /\ (lastOp.op = "Experience.save" /\ lastOp.is_current /\ lastOp.had_end) =>
          /\ lastOp.ok
          /\ lastOp.id \in DOMAIN experiences
          /\ experiences[lastOp.id].is_current
          /\ experiences[lastOp.id].end_date = NoDate
    /\ (lastOp.op = "Education.save" /\ lastOp.is_current /\ lastOp.had_end) =>
          /\ lastOp.ok
          /\ lastOp.id \in DOMAIN educations
          /\ educations[lastOp.id].is_current
          /\ educations[lastOp.id].end_date = NoDate

\* The dates a stored Experience or Education row may carry
DatesConsistent(row) ==
    /\ row.is_current => row.end_date = NoDate
    /\ (~row.is_current /\ row.end_date # NoDate) => DateLE(row.start_date, row.end_date)

\* C8: every stored Experience and Education has no end_date when it is
\* current and start_date <= end_date when it is not current and has an
\* end_date; a save of a non-current record with start_date > end_date ends
\* in a validation error and leaves both tables as they were.
C8_DatedRecordsConsistent ==
    /\ [](/\ \A id \in DOMAIN experiences : DatesConsistent(experiences[id])
          /\ \A id \in DOMAIN educations : DatesConsistent(educations[id]))
    /\ [][\A start \in SampleDates, end \in SampleDates :
            DateLT(end, start) =>
              /\ \A id \in ExperienceIds :
                    SaveExperience(id, start, end, FALSE, 0) =>
                        /\ experiences' = experiences /\ educations' = educations
                        /\ ~lastOp'.ok /\ lastOp'.error = "ValidationError"
              /\ \A id \in EducationIds, g \in SampleGrades :
                    SaveEducation(id, start, end, FALSE, 0, g[1], g[2]) =>
                        /\ experiences' = experiences /\ educations' = educations
                        /\ ~lastOp'.ok /\ lastOp'.error = "ValidationError"]_vars

\* C8 witness: a save with start_date after end_date was rejected while a
\* non-current record with an end_date was stored.
C8_Witness ==
    /\ lastOp.op = "Experience.save" /\ ~lastOp.ok
    /\ lastOp.message = "Start date cannot be after end date."
    /\ lastOp.id \in DOMAIN experiences
    /\ ~experiences[lastOp.id].is_current
    /\ experiences[lastOp.id].end_date # NoDate
    /\ \E id \in DOMAIN educations : educations[id].is_current

\* start plus n whole months, the day clipped to the month's length
PlusMonths(d, n) ==
    LET k  == (Year(d) * 12 + (Month(d) - 1)) + n
        y  == k \div 12
        m  == (k % 12) + 1
        dm == DaysInMonth(y, m)
    IN  <<y, m, IF Day(d) < dm THEN Day(d) ELSE dm>>

\* The whole months from start to end (start <= end): the largest n with
\* start plus n months not after end.
WholeMonths(start, end) ==
    CHOOSE n \in 0..(12 * (MaxYearSpan + 1)) :
        /\ DateLE(PlusMonths(start, n), end)
        /\ DateLT(end, PlusMonths(start, n + 1))

\* The string the format rules give for whole years y and remaining months m,
\* with the given fallback
Formatted(y, m, fallback) ==
    IF y > 0 /\ m > 0 THEN ToString(y) \o " yr " \o ToString(m) \o " mo"
    ELSE IF y > 0 THEN ToString(y) \o " yr"
    ELSE IF m > 0 THEN ToString(m) \o " mo"
    ELSE fallback

\* The end the duration is measured to: today when current, else end_date
DurEnd == IF dur.is_current THEN dur.now ELSE dur.end_date

\* The duration the format rules give when an end is defined
DurExpected ==
    IF DateLE(dur.start_date, DurEnd)
    THEN LET n == WholeMonths(dur.start_date, DurEnd)
         IN  Formatted(n \div 12, n % 12, "Less than a month")
    ELSE "Less than a month"

\* C6 as stated: the duration follows the format rules and there is one
\* fallback string, "Less than a month", for every other case, the case of
\* a record with no end included.
C6_OneFallback ==
    dur.state = "read" =>
        /\ DurEnd # NoDate => dur.duration = DurExpected
        /\ DurEnd = NoDate => dur.duration = "Less than a month"
        /\ (/\ dur.start_date = <<2020, 1, 1>> /\ dur.is_current
            /\ dur.now = <<2021, 6, 1>>) => dur.duration = "1 yr 5 mo"

\* C6 amended: the duration follows the format rules with the fallback
\* "Less than a month" when an end is defined (today for a current record,
\* end_date otherwise), and is "Present" for a record that is not current
\* and has no end_date; start 2020-01-01, current, today 2021-06-01 gives
\* "1 yr 5 mo".
C6_DurationFormat ==
    dur.state = "read" =>
        /\ DurEnd # NoDate => dur.duration = DurExpected
        /\ DurEnd = NoDate => dur.duration = "Present"
        /\ (/\ dur.start_date = <<2020, 1, 1>> /\ dur.is_current
            /\ dur.now = <<2021, 6, 1>>) => dur.duration = "1 yr 5 mo"

\* C6 witness: the duration of the experience of the example has been read.
C6_Witness ==
    /\ dur.state = "read"
    /\ dur.start_date = <<2020, 1, 1>> /\ dur.is_current /\ dur.now = <<2021, 6, 1>>
    /\ dur.duration = "1 yr 5 mo"

\* C5: the project-detail request for slug s answers 200 with the one
\* project whose slug is s and whose is_public is true when there is one,
\* and 404 when no project has slug s or the project with slug s is not
\* public.
C5_DetailBySlug ==
    resp.status # 0 /\ resp.op = "get_project_detail" =>
        LET visible == {i \in DOMAIN projects :
                           projects[i].slug = resp.slug /\ projects[i].is_public}
        IN  /\ Cardinality(visible) <= 1
            /\ visible # {} =>
                  /\ resp.status = 200
                  /\ resp.id \in visible
                  /\ resp.data = projects[resp.id]
            /\ visible = {} => resp.status = 404

\* C5 witness: the slug of a stored project that is not public was answered
\* with 404 while a public project was stored.
C5_Witness ==
    /\ resp.status = 404 /\ resp.op = "get_project_detail"
    /\ \E i \in DOMAIN projects : projects[i].slug = resp.slug /\ ~projects[i].is_public
    /\ \E i \in DOMAIN projects : projects[i].is_public

\* The responses of the three paginated lists
IsListResponse ==
    resp.status = 200 /\ resp.op \in {"get_projects", "get_experiences", "get_education"}

\* C4 as stated: every paginated list response has
\* total_pages = ceil(total / page_size), and has_next is true exactly when
\* the requested page is below total_pages.
C4_CeilAndHasNext ==
    IsListResponse =>
        /\ resp.total_pages = CeilDiv(resp.total, resp.page_size)
        /\ resp.has_next = (resp.page < resp.total_pages)

\* C4 amended: every paginated list response has
\* total_pages = max(1, ceil(total / page_size)), one page for an empty
\* list, and has_next is true exactly when the requested page is at least 1
\* and below total_pages.
C4_PagesAndHasNext ==
    IsListResponse =>
        /\ resp.total_pages = Max(1, CeilDiv(resp.total, resp.page_size))
        /\ resp.has_next = (1 <= resp.page /\ resp.page < resp.total_pages)

\* C4 witness: page 0 of a list of two records in pages of one has been
\* asked; the handler answers with the last page, which has no next.
C4_Witness ==
    /\ IsListResponse
    /\ resp.page = 0 /\ resp.page_size = 1 /\ resp.total = 2
    /\ resp.total_pages = 2 /\ ~resp.has_next
    /\ Len(resp.items) = 1

\* C11: every stored project that has both dates has
\* start_date <= completion_date.
C11_ProjectDatesOrdered ==
    \A i \in DOMAIN projects :
        (projects[i].start_date # NoDate /\ projects[i].completion_date # NoDate)
            => DateLE(projects[i].start_date, projects[i].completion_date)

\* C12: every stored DemoStat whose end_time is set, with
\* start_time <= end_time, has duration = end_time - start_time in seconds,
\* whatever the length of the session; and a save with end_time unset leaves
\* the duration as it was.
C12_DurationIsDifference ==
    /\ \A i \in DOMAIN demoStats :
          (demoStats[i].end_time # NoTime
              /\ demoStats[i].start_time <= demoStats[i].end_time)
            => demoStats[i].duration = demoStats[i].end_time - demoStats[i].start_time
    /\ (lastOp.op = "DemoStat.save" /\ lastOp.ok /\ lastOp.end_time = NoTime)
            => demoStats[lastOp.id].duration = lastOp.before

\* The table a list response was read from
ListedTable ==
    IF resp.op = "get_projects" THEN projects
    ELSE IF resp.op = "get_experiences" THEN experiences
    ELSE educations

\* The recency of a listed row: created_at of a project (a number), the
\* start_date of an experience or education
MoreRecentOrSame(a, b) ==
    IF resp.op = "get_projects" THEN a.created_at >= b.created_at
    ELSE DateLE(b.start_date, a.start_date)

\* C13: in each of the three lists the items are ordered by the
\* order field first and, among rows of equal order, the most recent first.
C13_OrderThenRecency ==
    IsListResponse =>
        \A i, j \in 1..Len(resp.items) :
            i < j =>
                LET a == ListedTable[resp.items[i]]
                    b == ListedTable[resp.items[j]]
                IN  \/ a.order < b.order
                    \/ a.order = b.order /\ MoreRecentOrSame(a, b)

\* The request on which the experience list leaves C13: the first item has
\* the larger order field and the later start_date.
ExperienceListedByStartDate ==
    /\ IsListResponse /\ resp.op = "get_experiences"
    /\ Len(resp.items) = 2
    /\ experiences[resp.items[1]].order > experiences[resp.items[2]].order
    /\ DateLT(experiences[resp.items[2]].start_date, experiences[resp.items[1]].start_date)

ContactAccepted ==
    /\ resp.status = 201 /\ resp.op = "send_contact_message"
    /\ Cardinality(DOMAIN messages) = 2

\* The detail requests and the table each reads
DetailOps ==
    {"get_experience_detail", "get_education_detail", "get_resume_detail",
     "download_resume"}

IsDetailResponse == resp.status # 0 /\ resp.op \in DetailOps

\* The request identifier matches a record the request can see
DetailMatches ==
    /\ resp.ident.wf
    /\ resp.ident.id \in
          (IF resp.op = "get_experience_detail" THEN DOMAIN experiences
           ELSE IF resp.op = "get_education_detail" THEN DOMAIN educations
           ELSE PublicResumes(resumes))

\* C15: a detail request whose identifier matches no visible record, an
\* absent uuid or a string that is no uuid, is answered 404 and changes no
\* stored state.
C15_UnmatchedIs404 ==
    (IsDetailResponse /\ ~DetailMatches) =>
        /\ resp.status = 404
        /\ resp.op \in {"get_resume_detail", "download_resume"} => resumes = resp.before

\* The request on which the handlers leave C15: an identifier that is no
\* uuid is answered 500.
MalformedIdentifierIs500 ==
    /\ IsDetailResponse /\ ~resp.ident.wf /\ resp.status = 500

\* C16: a download request that returned the file has added one to that
\* resume's download_count and changed no other counter; a download request
\* for an unknown or non-public resume is answered 404 and leaves every
\* counter as it was.
C16_DownloadCountsOnce ==
    (resp.status # 0 /\ resp.op = "download_resume") =>
        /\ DOMAIN resumes = DOMAIN resp.before
        /\ resp.status = 200 =>
              \A i \in DOMAIN resumes :
                  /\ resumes[i].view_count = resp.before[i].view_count
                  /\ resumes[i].download_count =
                        IF i = resp.ident.id
                        THEN resp.before[i].download_count + 1
                        ELSE resp.before[i].download_count
        /\ ~DetailMatches =>
              /\ resp.status = 404
              /\ \A i \in DOMAIN resumes :
                    /\ resumes[i].view_count = resp.before[i].view_count
                    /\ resumes[i].download_count = resp.before[i].download_count

\* The downloads the handler counts as C16 says: the file was returned and
\* the counter of that resume, next to another resume, went from 1 to 2.
DownloadCounted ==
    /\ resp.status = 200 /\ resp.op = "download_resume"
    /\ Cardinality(DOMAIN resumes) = 2
    /\ resumes[resp.ident.id].download_count = 2
    /\ resp.before[resp.ident.id].download_count = 1

\* The download request on which the handler leaves C16: the identifier is
\* no uuid, the answer is 500 and no counter changed.
MalformedDownloadIs500 ==
    /\ resp.status = 500 /\ resp.op = "download_resume" /\ ~resp.ident.wf
    /\ resumes = resp.before

\* C17: the clearing of the other primaries and the storing of X are one
\* atomic step: in no state has a save of a primary X cleared the previous
\* primary while X is not stored as primary, and after a failed storing of X
\* some resume is still primary.
C17_PrimarySaveAtomic ==
    /\ \A p \in DOMAIN procs :
          (/\ procs[p].pc = "write" /\ procs[p].kind = "save"
           /\ procs[p].inst.is_primary)
            => resumes[procs[p].inst.id].is_primary
    /\ (lastOp.op = "Resume.save.write" /\ ~lastOp.ok /\ lastOp.is_primary)
            => \E i \in DOMAIN resumes : resumes[i].is_primary

\* The state a concurrent request observes against C17: resume 1 was
\* primary, a save of resume 2 as primary has cleared it and has not yet
\* stored resume 2, and get_primary_resume answers 404.
NoPrimaryObserved ==
    /\ \E p \in DOMAIN procs :
          /\ procs[p].pc = "write" /\ procs[p].kind = "save"
          /\ procs[p].inst.id = 2 /\ procs[p].inst.is_primary
    /\ \A i \in DOMAIN resumes : ~resumes[i].is_primary
    /\ resp.status = 404 /\ resp.op = "get_primary_resume"

\* No request is in progress
AllIdle == \A p \in DOMAIN procs : procs[p].pc = "idle"

\* C19: under every interleaving of download requests the stored
\* download_count never decreases, and once all requests have completed it
\* is the initial value plus the number of requests.
C19_NoLostIncrement ==
    /\ [](AllIdle =>
            \A i \in DOMAIN resumes :
                resumes[i].download_count =
                    resumeHist[i].download0 + resumeHist[i].downloads)
    /\ [][\A i \in DOMAIN resumes :
            resumes'[i].download_count >= resumes[i].download_count]_vars

\* The interleaving against C19: two requests have completed on resume 1 and
\* its download_count is 1.
IncrementLost ==
    /\ AllIdle
    /\ resumeHist[1].downloads = 2
    /\ resumes[1].download_count = 1

\* C18: under every interleaving of settings writes and settings reads the
\* settings table holds at most one row, and every read returns a settings
\* row.
C18_SingletonUnderRaces ==
    /\ Cardinality(DOMAIN settings) <= 1
    /\ (resp.status # 0 /\ resp.op = "get_active_settings") => resp.status = 200

\* The interleaving against C18: two rows are stored and a read has failed
\* on them.
SettingsReadFailed ==
    /\ Cardinality(DOMAIN settings) = 2
    /\ resp.status = 500 /\ resp.op = "get_active_settings"

\* C20: duration_years of a stored Education is an integer, the whole years
\* from start_date to the end (today when current, end_date otherwise): the
\* difference of the years, less one when the end's month and day come
\* before the start's; and the record serialises into the education
\* response.
C20_DurationYearsIsInteger ==
    (resp.status # 0 /\ resp.op = "get_education_detail" /\ DetailMatches) =>
        LET e == educations[resp.ident.id]
        IN  /\ resp.status = 200
            /\ resp.duration_years.is_int
            /\ LET end == IF e.is_current THEN resp.today ELSE e.end_date
               IN  end # NoDate =>
                     resp.duration_years.years =
                        (Year(end) - Year(e.start_date))
                          - (IF DateLT(<<Year(e.start_date), Month(end), Day(end)>>,
                                       e.start_date)
                             THEN 1 ELSE 0)

\* The record on which the property leaves C20: an education that is not
\* current and has no end_date has duration_years "Present", and the request
\* for it fails.
DurationYearsIsPresent ==
    /\ resp.status = 500 /\ resp.op = "get_education_detail" /\ DetailMatches
    /\ ~resp.duration_years.is_int /\ resp.duration_years.text = "Present"

\* The lines of a text: the pieces between its newline characters.
RECURSIVE SplitLines(_)
SplitLines(t) ==
    IF \A i \in 1..Len(t) : t[i] # Newline THEN <<t>>
    ELSE LET k == CHOOSE i \in 1..Len(t) :
                    t[i] = Newline /\ \A j \in 1..(i - 1) : t[j] # Newline
         IN <<SubSeq(t, 1, k - 1)>> \o SplitLines(SubSeq(t, k + 1, Len(t)))

\* C21: after every CodeSnippet.save, whatever line_count the instance held
\* before the call, the stored line_count is the number of lines of the stored
\* code body, that is the number of its newline characters plus one.
C21_LineCountRecomputed ==
    /\ \A i \in DOMAIN snippets :
          /\ snippets[i].line_count = Len(SplitLines(snippets[i].code))
          /\ snippets[i].line_count =
                Cardinality({k \in 1..Len(snippets[i].code) :
                                snippets[i].code[k] = Newline}) + 1
    /\ lastOp.op = "CodeSnippet.save" =>
          /\ lastOp.id \in DOMAIN snippets
          /\ snippets[lastOp.id].code = lastOp.code

\* A stored snippet is saved with a two-line body and a submitted line_count
\* that is not 2.
C21_Witness ==
    /\ lastOp.op = "CodeSnippet.save"
    /\ ~lastOp.adding
    /\ lastOp.submitted = 7
    /\ lastOp.code = <<"a", Newline>>
    /\ snippets[lastOp.id].line_count = 2

\* C22: no statement of increment_download_count changes the is_primary flag
\* of any resume, also when the instance was loaded before another resume was
\* made primary.
C22_IncrementKeepsPrimary ==
    [][\A p \in DOMAIN procs :
          (/\ procs[p].pc # "idle" /\ procs[p].kind = "download"
           /\ procs'[p] # procs[p])
            => \A i \in DOMAIN resumes :
                  resumes'[i].is_primary = resumes[i].is_primary]_vars

\* The outcome against C22: resume 2 was saved as primary while a download
\* held resume 1 loaded as primary; the download's save cleared resume 2 and
\* wrote only download_count, and no resume is primary.
PrimaryLostByDownload ==
    /\ AllIdle
    /\ lastOp.op = "Resume.save.write" /\ lastOp.kind = "download" /\ lastOp.ok
    /\ lastOp.id = 1 /\ resumes[1].download_count = 1
    /\ \A i \in DOMAIN resumes : ~resumes[i].is_primary

\* The project records a response of the public API holds
RECURSIVE UnionOf(_)
UnionOf(S) ==
    IF S = {} THEN {}
    ELSE LET x == CHOOSE y \in S : TRUE IN x \cup UnionOf(S \ {x})

ProjectDataIn(r) ==
    IF r.status # 200 THEN {}
    ELSE IF r.op = "get_projects"
    THEN {ProjectSchema_from_orm(projects, r.items[k]) : k \in 1..Len(r.items)}
    ELSE IF r.op = "get_project_detail"
    THEN {ProjectSchema_from_orm(projects, r.id)}
    ELSE IF r.op = "get_home_data"
    THEN r.recent_projects \cup UnionOf({d.projects : d \in r.primary_resume})
    ELSE IF r.op = "get_demos" THEN {d.project : d \in r.items}
    ELSE IF r.op = "get_resumes" THEN UnionOf({d.projects : d \in r.items})
    ELSE IF r.op = "get_resume_detail" THEN r.data.projects
    ELSE {}

\* C23: no response of the public API (project list, project detail, home,
\* demos, resume list, resume detail) holds the data of a project whose
\* is_public flag is false.
C23_NoPrivateProjectData ==
    resp.status # 0 => \A d \in ProjectDataIn(resp) : d.is_public

\* The response against C23: the demos list holds the data of a project
\* that is not public.
PrivateProjectInDemos ==
    /\ resp.status = 200 /\ resp.op = "get_demos"
    /\ \E d \in resp.items : ~d.project.is_public /\ ~projects[d.project.id].is_public

\* Likewise the resume list, for a project linked to a public resume.
PrivateProjectInResumes ==
    /\ resp.status = 200 /\ resp.op = "get_resumes"
    /\ \E d \in resp.items : \E q \in d.projects : ~q.is_public

\* C24: for an experience with a defined end (today when current, else
\* end_date) and start_date <= end, duration shows the years and months of
\* duration_months: duration_months = 12 * years + months, and duration is
\* "Less than a month" exactly when duration_months is 0.
C24_DurationsAgree ==
    (dur.state = "both" /\ DurEnd # NoDate /\ DateLE(dur.start_date, DurEnd)) =>
        /\ dur.duration = Formatted(dur.duration_months \div 12,
                                    dur.duration_months % 12, "Less than a month")
        /\ dur.duration = "Less than a month" <=> dur.duration_months = 0

\* The readings against C24: an experience from 2020-01-31 to 2020-02-01
\* shows "Less than a month" and has duration_months 1.
DurationsDisagree ==
    /\ dur.state = "both"
    /\ dur.start_date = <<2020, 1, 31>> /\ dur.end_date = <<2020, 2, 1>>
    /\ dur.duration = "Less than a month" /\ dur.duration_months = 1

\* The human-readable form of a size in bytes: the value scaled by the
\* largest power of 1024 not above it, with the unit of that power
HumanReadable(bytes) ==
    IF bytes = 0 THEN "Unknown"
    ELSE LET units == <<"bytes", "KB", "MB", "GB">>
             u == CHOOSE k \in 0..3 :
                    /\ Kilo^k <= bytes
                    /\ k < 3 => bytes \div (Kilo^k) < Kilo
         IN  Format1f(bytes, Kilo^u) \o " " \o units[u + 1]

ResumeItemsIn(r) ==
    IF r.status # 200 THEN {}
    ELSE IF r.op = "get_resumes" THEN r.items
    ELSE IF r.op = "get_resume_detail" THEN {r.data}
    ELSE {}

\* C25: reading file_size_human leaves the instance's file_size as it was,
\* so consecutive reads on one instance return the same string, and the
\* file_size_human of a resume response is the human-readable form of the
\* file_size in bytes of that resume.
C25_FileSizeHumanPure ==
    /\ dur.state = "resume" =>
          /\ dur.file_size = LoadedFileSize(resumes[dur.id].file_size)
          /\ \A i, j \in 1..Len(dur.reads) : dur.reads[i] = dur.reads[j]
    /\ resp.status # 0 =>
          \A d \in ResumeItemsIn(resp) :
              d.file_size_human = HumanReadable(d.file_size)

\* The readings against C25: a resume of 2048 bytes reads "2.0 KB", then
\* "2.0 bytes".
FileSizeReadTwice ==
    /\ dur.state = "resume"
    /\ resumes[dur.id].file_size = 2048
    /\ dur.reads = <<"2.0 KB", "2.0 bytes">>

\* The response against C25: the resume list shows "2.0 bytes" for a resume
\* whose file_size is 2048.
FileSizeHumanWrongInResponse ==
    /\ resp.status = 200 /\ resp.op = "get_resumes"
    /\ \E d \in resp.items : d.file_size = 2048 /\ d.file_size_human = "2.0 bytes"

\* C26: the all-settings read answers successfully for every state of the
\* settings row, with null for each of logo, favicon and my_image that is
\* not set.
C26_AllSettingsAlwaysAnswers ==
    (resp.status # 0 /\ resp.op = "get_all_settings") =>
        /\ resp.status = 200
        /\ lastOp.op = resp.op =>
           LET obj == SiteSettings_get_active_settings(lastOp.before, 1).obj
           IN  /\ obj.logo = NoFile => resp.logo = Null
               /\ obj.favicon = NoFile => resp.favicon = Null
               /\ obj.my_image = NoFile => resp.my_image = Null

\* The request against C26: the all-settings read on a settings row without
\* my_image ends in an error.
AllSettingsFailed ==
    /\ resp.status = 500 /\ resp.op = "get_all_settings"
    /\ resp.error = "UnboundLocalError"
    /\ lastOp.op = resp.op
    /\ \E i \in DOMAIN lastOp.before : lastOp.before[i].my_image = NoFile

\* With my_image set the read answers, with null for an unset logo.
AllSettingsAnswered ==
    /\ resp.status = 200 /\ resp.op = "get_all_settings"
    /\ resp.logo = Null /\ resp.my_image # Null

\* The settings tables that differ from db only in admin_email and
\* analytics_code
SettingsVariants(db) ==
    {[i \in DOMAIN db |-> [db[i] EXCEPT !.admin_email = v[i].admin_email,
                                        !.analytics_code = v[i].analytics_code]] :
        v \in [DOMAIN db -> [admin_email : {"admin@example.com", "owner@example.com"},
                             analytics_code : {"", "UA-1"}]]}

\* The demo tables that differ from db only in admin_url, admin_username,
\* admin_password and container_id
DemoVariants(db) ==
    {[i \in DOMAIN db |-> [db[i] EXCEPT !.admin_url = v[i].admin_url,
                                        !.admin_username = v[i].admin_username,
                                        !.admin_password = v[i].admin_password,
                                        !.container_id = v[i].container_id]] :
        v \in [DOMAIN db -> [admin_url : {"", "https://demo.example.com/admin"},
                             admin_username : {"", "root"},
                             admin_password : {"", "hunter2"},
                             container_id : {"", "c0ffee"}]]}

\* C29: two database states that differ only in SiteSettings.admin_email /
\* analytics_code or in a demo instance's admin_url, admin_username,
\* admin_password or container_id get identical responses from every public
\* settings endpoint (settings, maintenance, theme, seo, social, all) and
\* from the demos endpoint: the response a request got is the response it
\* gets in every state that differs from its state only in those fields.
C29_SensitiveFieldsNotObservable ==
    /\ (resp.status # 0 /\ resp.op \in SettingsEndpoints /\ lastOp.op = resp.op) =>
          \A v \in SettingsVariants(lastOp.before) :
              SettingsAnswer(resp.op, v, 1) = resp
    /\ (resp.status # 0 /\ resp.op = "get_demos") =>
          \A v \in DemoVariants(demos) : DemosResponse(v, projects) = resp

\* The all-settings read has answered on a settings row with an analytics
\* code, while a public online demo with an admin password is stored.
C29_Witness ==
    /\ resp.status = 200 /\ resp.op = "get_all_settings" /\ lastOp.op = resp.op
    /\ \E i \in DOMAIN lastOp.before : lastOp.before[i].analytics_code = "UA-1"
    /\ \E i \in DOMAIN demos :
          /\ demos[i].is_public /\ demos[i].status = "online"
          /\ demos[i].admin_password = "hunter2"
    /\ DemosResponse(demos, projects).items # {}

\* The items of a sequence, as a set
Range(seq) == {seq[k] : k \in 1..Len(seq)}

\* The response is a page of the walk 1..total_pages
IsWalkPage(r) ==
    /\ r.status = 200 /\ r.op \in {"get_projects", "get_experiences", "get_education"}
    /\ 1 <= r.page /\ r.page <= r.total_pages

\* The number of items left for page number of a list of total items
ItemsOnPage(total, number, page_size) ==
    Max(0, IF total - (number - 1) * page_size < page_size
           THEN total - (number - 1) * page_size ELSE page_size)

\* C27: for a fixed filter and page_size and unchanged data, the pages
\* 1..total_pages hold every matching record exactly once: a page holds at
\* most page_size items, all different, as many as are left for it (so the
\* counts of all pages sum to total), and two different pages of one list
\* share no record.
C27_PagesPartition ==
    /\ [](IsWalkPage(resp) =>
            /\ Len(resp.items) <= resp.page_size
            /\ Cardinality(Range(resp.items)) = Len(resp.items)
            /\ Len(resp.items) = ItemsOnPage(resp.total, resp.page, resp.page_size))
    /\ [][(/\ IsWalkPage(resp) /\ IsWalkPage(resp')
           /\ resp'.op = resp.op /\ resp'.page_size = resp.page_size
           /\ resp'.page # resp.page)
            => Range(resp.items) \cap Range(resp'.items) = {}]_vars

\* The responses against C27: of two projects with the same order and
\* created_at, page 1 and then page 2 of the list in pages of one have both
\* answered with project 1.
SameRecordOnTwoPages ==
    /\ IsWalkPage(resp) /\ resp.op = "get_projects"
    /\ resp.page = 2 /\ resp.page_size = 1 /\ resp.total = 2
    /\ resp.items = <<1>>
    /\ projects[1].order = projects[2].order
    /\ projects[1].created_at = projects[2].created_at

\* The resumes Resume.objects.get(is_primary=True, is_public=True) matches
PrimaryPublicResumes(db) == {i \in DOMAIN db : db[i].is_primary /\ db[i].is_public}

\* C28: GET /resumes/primary is served by the primary-resume operation: it
\* answers with the resume that is primary and public when there is one, and
\* with 404 when there is none (the empty table included).
C28_PrimaryPathServed ==
    [][(\E onDisk \in BOOLEAN : GetResumePath(PrimaryPath, onDisk)) =>
          /\ resp'.op = "get_primary_resume"
          /\ IF PrimaryPublicResumes(resumes) = {} THEN resp'.status = 404
             ELSE resp'.status = 200 /\ resp'.id \in PrimaryPublicResumes(resumes)]_vars

\* The response against C28: the path /resumes/primary has been answered by
\* get_resume_detail with a server error while a primary public resume is
\* stored.
PrimaryPathShadowed ==
    /\ resp.status = 500 /\ resp.op = "get_resume_detail"
    /\ resp.ident = ParseIdentifier("primary")
    /\ PrimaryPublicResumes(resumes) # {}

\* C30: a user stored by create_superuser has is_staff, is_superuser and
\* is_super_admin all true, whatever flags the caller passed.
C30_SuperuserFlagsForced ==
    (lastOp.op = "create_superuser" /\ lastOp.ok) =>
        /\ lastOp.id \in DOMAIN users
        /\ users[lastOp.id].is_staff
        /\ users[lastOp.id].is_superuser
        /\ users[lastOp.id].is_super_admin

\* The state against C30: create_superuser was called with
\* is_super_admin=False and has stored a user that is neither super admin
\* nor superuser.
SuperuserWithoutFlags ==
    /\ lastOp.op = "create_superuser" /\ lastOp.ok
    /\ DOMAIN lastOp.extra_fields = {"is_super_admin"}
    /\ ~lastOp.extra_fields["is_super_admin"]
    /\ users[lastOp.id].is_staff
    /\ ~users[lastOp.id].is_superuser /\ ~users[lastOp.id].is_super_admin

====
